---- MODULE Spec2Model ----
(***************************************************************************)
(* zypper-filesearch: the refresh coordinator, the SQLite cache and the    *)
(* query layer, as a state machine.                                        *)
(*                                                                         *)
(* The cache is modelled from the newest revision of package database      *)
(* (the Go source that follows the manual page in                          *)
(* src/zypper-file-list.1.md, schema version 3: epoch, version and release *)
(* are separate columns); src/database/database.go is the previous         *)
(* revision (schema version 2) of the same functions.                      *)
(*                                                                         *)
(* Strings that the code slices, matches or tests by prefix (paths, globs, *)
(* architectures, package names, versions, terms) are sequences of         *)
(* one-character strings; strings that are only compared for equality     *)
(* (pkgid, repository name) are TLA+ strings.                              *)
(***************************************************************************)
EXTENDS Integers, Sequences, FiniteSets, TLC

\* ------------------------------------------------------------------------
\* Strings
\* ------------------------------------------------------------------------

\* strings.HasPrefix(s, p)
HasPrefix(s, p) ==
    /\ Len(p) <= Len(s)
    /\ SubSeq(s, 1, Len(p)) = p

\* strings.TrimSuffix(s, "-"): one trailing dash is removed
TrimSuffix(s) ==
    IF Len(s) > 0 /\ s[Len(s)] = "-" THEN SubSeq(s, 1, Len(s) - 1) ELSE s

\* strings.LastIndex(s, "-"), 1-based; 0 when there is no dash (Go: -1)
LastIndex(s) ==
    IF \E k \in 1..Len(s) : s[k] = "-"
    THEN CHOOSE k \in 1..Len(s) : s[k] = "-" /\ \A m \in (k+1)..Len(s) : s[m] # "-"
    ELSE 0

\* ASCII lower-casing as SQLite's LIKE applies it (over the model's alphabet)
Lower(c) ==
    CASE c = "A" -> "a"
      [] c = "X" -> "x"
      [] OTHER -> c

\* SQLite: str LIKE pat. '%' matches any run of characters, '_' exactly one,
\* any other character matches itself without regard to ASCII case.
RECURSIVE Like(_, _)
Like(str, pat) ==
    IF pat = <<>> THEN str = <<>>
    ELSE IF Head(pat) = "%"
         THEN \E k \in 0..Len(str) : Like(SubSeq(str, k + 1, Len(str)), Tail(pat))
    ELSE IF str = <<>> THEN FALSE
    ELSE IF Head(pat) = "_" THEN Like(Tail(str), Tail(pat))
    ELSE Lower(Head(pat)) = Lower(Head(str)) /\ Like(Tail(str), Tail(pat))

\* SQLite: str GLOB pat. '*' matches any run of characters, '?' exactly one,
\* any other character matches itself, case-sensitively.  Patterns of the
\* model hold no '[' (character classes are not modelled).
RECURSIVE Glob(_, _)
Glob(str, pat) ==
    IF pat = <<>> THEN str = <<>>
    ELSE IF Head(pat) = "*"
         THEN \E k \in 0..Len(str) : Glob(SubSeq(str, k + 1, Len(str)), Tail(pat))
    ELSE IF str = <<>> THEN FALSE
    ELSE IF Head(pat) = "?" THEN Glob(Tail(str), Tail(pat))
    ELSE Head(pat) = Head(str) /\ Glob(Tail(str), Tail(pat))

\* filepath.IsAbs on Linux
IsAbs(path) == HasPrefix(path, <<"/">>)

\* ------------------------------------------------------------------------
\* The cache: a SQLite file
\* ------------------------------------------------------------------------

userVersion == 3

\* NULL in the pkgid column of files; package ids count from 1
Null == 0

TableNames == {"repositories", "packages", "files"}

\* A file SQLite has just created: user_version 0 and no table
NewFile ==
    [version |-> 0, tables |-> {}, repos |-> {}, pkgs |-> {}, files |-> {},
     seqRepo |-> 0, seqPkg |-> 0]

\* DROP TABLE IF EXISTS t: the rows go with the table, and so does the
\* table's AUTOINCREMENT counter (its sqlite_sequence row)
DropTable(d, t) ==
    CASE t = "files" ->
           [d EXCEPT !.tables = @ \ {t}, !.files = {}]
      [] t = "packages" ->
           [d EXCEPT !.tables = @ \ {t}, !.pkgs = {}, !.seqPkg = 0,
                     !.files = {f \in @ : f.pkgid = Null}]
      [] t = "repositories" ->
           [d EXCEPT !.tables = @ \ {t}, !.repos = {}, !.seqRepo = 0,
                     !.pkgs = {}, !.files = {f \in @ : f.pkgid = Null}]

\* CREATE TABLE t
CreateTable(d, t) == [d EXCEPT !.tables = @ \cup {t}]

\* A version test that never passes: every open starts from empty tables
IsValidVersionNever(version) == FALSE

\* A faulty version test: a file written by a newer schema passes as valid
IsValidVersionNewerToo(version) == version >= userVersion

\* version == userVersion: "This is a valid database"
IsValidVersion(version) == version = userVersion

\* Database.initialize: keep a file of the expected user_version, otherwise
\* drop the three tables (children first), create them and set user_version
initialize(d) ==
    IF IsValidVersion(d.version) THEN d
    ELSE LET d1 == DropTable(d, "files")
             d2 == DropTable(d1, "packages")
             d3 == DropTable(d2, "repositories")
             d4 == CreateTable(d3, "repositories")
             d5 == CreateTable(d4, "packages")
             d6 == CreateTable(d5, "files")
         IN  [d6 EXCEPT !.version = userVersion]

\* A delete of packages without its cascade: their files stay
DeletePackagesNoCascade(d, gone) == [d EXCEPT !.pkgs = @ \ gone]

\* ON DELETE CASCADE from packages to files: the files of the packages `gone`
DeletePackages(d, gone) ==
    [d EXCEPT !.pkgs = @ \ gone,
              !.files = {f \in @ : f.pkgid \notin {p.id : p \in gone}}]

\* ON DELETE CASCADE from repositories to packages (and on to files)
DeleteRepositories(d, gone) ==
    LET d1 == DeletePackages(d, {p \in d.pkgs : p.repository \in {r.id : r \in gone}})
    IN  [d1 EXCEPT !.repos = @ \ gone]

\* A faulty upsert, as an ON CONFLICT(url) DO UPDATE would be: the row keeps
\* its id and its packages and files stay
UpsertRepositoryKeepChildren(d, repo, lastChecked, lastModified) ==
    LET same == {r \in d.repos : r.url = repo.url}
        id == IF same = {} THEN d.seqRepo + 1 ELSE (CHOOSE r \in same : TRUE).id
    IN  [d EXCEPT !.repos = (@ \ same) \cup
                     {[id |-> id, alias |-> repo.alias, name |-> repo.name,
                       url |-> repo.url, type |-> repo.type,
                       enabled |-> repo.enabled, lastChecked |-> lastChecked,
                       lastModified |-> lastModified]},
                  !.seqRepo = IF same = {} THEN id ELSE @]

\* A plain INSERT with no UNIQUE(url) to stop it: the old row stays
UpsertRepositoryAppend(d, repo, lastChecked, lastModified) ==
    LET id == d.seqRepo + 1
    IN  [d EXCEPT !.repos = @ \cup
                     {[id |-> id, alias |-> repo.alias, name |-> repo.name,
                       url |-> repo.url, type |-> repo.type,
                       enabled |-> repo.enabled, lastChecked |-> lastChecked,
                       lastModified |-> lastModified]},
                  !.seqRepo = id]

\* INSERT OR REPLACE INTO repositories (...): the row holding the same url is
\* deleted (with its packages and files), the new row takes the next
\* AUTOINCREMENT id.  The result's LastInsertId is the new seqRepo.
UpsertRepository(d, repo, lastChecked, lastModified) ==
    LET d1 == DeleteRepositories(d, {r \in d.repos : r.url = repo.url})
        id == d.seqRepo + 1
    IN  [d1 EXCEPT !.repos = @ \cup
                     {[id |-> id, alias |-> repo.alias, name |-> repo.name,
                       url |-> repo.url, type |-> repo.type,
                       enabled |-> repo.enabled, lastChecked |-> lastChecked,
                       lastModified |-> lastModified]},
                   !.seqRepo = id]

\* A packages table without its second UNIQUE: only the pkgid clashes
AddPackagePkgidOnly(d, rowid, pkgid, name, arch, epoch, version, release) ==
    LET d1 == DeletePackages(d, {p \in d.pkgs : p.pkgid = pkgid})
        id == d.seqPkg + 1
    IN  [d1 EXCEPT !.pkgs = @ \cup
                     {[id |-> id, repository |-> rowid, pkgid |-> pkgid,
                       name |-> name, arch |-> arch, epoch |-> epoch,
                       version |-> version, release |-> release]},
                   !.seqPkg = id]

\* pkgStmt: INSERT OR REPLACE INTO packages (...).  Rows that hold the same
\* pkgid (in any repository), or the same (repository, name, arch, epoch,
\* version, release), are deleted with their files.
AddPackage(d, rowid, pkgid, name, arch, epoch, version, release) ==
    LET clash == {p \in d.pkgs :
                    \/ p.pkgid = pkgid
                    \/ /\ p.repository = rowid /\ p.name = name /\ p.arch = arch
                       /\ p.epoch = epoch /\ p.version = version
                       /\ p.release = release}
        d1 == DeletePackages(d, clash)
        id == d.seqPkg + 1
    IN  [d1 EXCEPT !.pkgs = @ \cup
                     {[id |-> id, repository |-> rowid, pkgid |-> pkgid,
                       name |-> name, arch |-> arch, epoch |-> epoch,
                       version |-> version, release |-> release]},
                   !.seqPkg = id]

\* fileStmt: INSERT OR REPLACE INTO files (pkgid, file) VALUES
\* ((SELECT id FROM packages WHERE packages.pkgid = ?), ?); the scalar
\* subquery is NULL when no package holds the pkgid.  A row (id, file) that
\* is there already is replaced by itself; NULLs are distinct in the primary
\* key, so every (NULL, file) is one more row: n counts the rows that hold
\* the same NULL and file, and is 1 in every other row
AddFile(d, pkgid, file) ==
    LET ids == {p.id : p \in {q \in d.pkgs : q.pkgid = pkgid}}
        same == {f \in d.files : f.pkgid = Null /\ f.file = file}
    IN  IF ids = {}
        THEN [d EXCEPT !.files = @ \cup {[pkgid |-> Null, file |-> file,
                                          n |-> Cardinality(same) + 1]}]
        ELSE [d EXCEPT !.files = @ \cup {[pkgid |-> CHOOSE i \in ids : TRUE,
                                          file |-> file, n |-> 1]}]

\* ------------------------------------------------------------------------
\* The query layer
\* ------------------------------------------------------------------------

\* An arch clause that asks for the very same arch
ArchClauseExact(pkgArch, arch) ==
    pkgArch = <<"n", "o", "a", "r", "c", "h">> \/ arch = pkgArch

\* (packages.arch == 'noarch' OR '<arch>' LIKE packages.arch || '%')
ArchClause(pkgArch, arch) ==
    pkgArch = <<"n", "o", "a", "r", "c", "h">> \/ Like(arch, pkgArch \o <<"%">>)

\* if arch != "" { query += ` AND (...)` }
ArchMatches(pkgArch, arch) == arch = <<>> \/ ArchClause(pkgArch, arch)

\* buildRepoFilter: the urls of the repositories passed in
buildRepoFilter(repos) == {repos[k].url : k \in 1..Len(repos)}

\* The join both queries select from: packages INNER JOIN repositories ON
\* packages.repository == repositories.id INNER JOIN files ON packages.id ==
\* files.pkgid.  pid (the package's surrogate id) tells the joined rows
\* apart; the SearchResult the Go code scans holds the other fields.
Joined(d) ==
    {[pid |-> p.id, url |-> r.url, repository |-> r.name, package |-> p.name,
      arch |-> p.arch, epoch |-> p.epoch, version |-> p.version,
      release |-> p.release, path |-> f.file] :
        <<p, r, f>> \in {t \in d.pkgs \X d.repos \X d.files :
                           t[1].repository = t[2].id /\ t[3].pkgid = t[1].id}}

\* One row of the result, as scanned into a SearchResult (plus pid)
Result(j) ==
    [pid |-> j.pid, repository |-> j.repository, package |-> j.package,
     arch |-> j.arch, epoch |-> j.epoch, version |-> j.version,
     release |-> j.release, path |-> j.path]

\* Database.SearchFile
SearchFile(d, repos, path, arch) ==
    {Result(j) : j \in {x \in Joined(d) :
                          /\ Glob(x.path, path)
                          /\ x.url \in buildRepoFilter(repos)
                          /\ ArchMatches(x.arch, arch)}}

\* ListPackage's candidates for one term, as the argument lists of pkgStmt,
\* pkgVersionStmt and pkgVersionReleaseStmt: [name], [name, version] split at
\* the last dash, [name, version, release] split at the last two dashes
Candidates(term0) ==
    LET term == TrimSuffix(term0)
        i == LastIndex(term)
        j == IF i > 0 THEN LastIndex(SubSeq(term, 1, i - 1)) ELSE 0
        c1 == << <<term>> >>
        c2 == IF i > 0
              THEN << <<SubSeq(term, 1, i - 1), SubSeq(term, i + 1, Len(term))>> >>
              ELSE << >>
        c3 == IF i > 0 /\ j > 0
              THEN << <<SubSeq(term, 1, j - 1), SubSeq(term, j + 1, i - 1),
                        SubSeq(term, i + 1, Len(term))>> >>
              ELSE << >>
    IN  c1 \o c2 \o c3

\* candidate.stmt.QueryContext(repoArgs, candidate.args): the ids of the
\* packages of the listed repositories that match the arch clause, the name
\* and, when the candidate holds them, the version and the release
PkgQuery(d, repos, arch, args) ==
    {p.id : p \in {q \in d.pkgs :
        /\ \E r \in d.repos : r.id = q.repository /\ r.url \in buildRepoFilter(repos)
        /\ ArchMatches(q.arch, arch)
        /\ q.name = args[1]
        /\ (Len(args) >= 2 => q.version = args[2])
        /\ (Len(args) >= 3 => q.release = args[3])}}

\* The candidate loop of one term taken to its end: the rows of the first
\* candidate (from the k-th on) that returns any, {} when none does
RECURSIVE TermIds(_, _, _, _, _)
TermIds(d, repos, arch, cands, k) ==
    IF k > Len(cands) THEN {}
    ELSE IF PkgQuery(d, repos, arch, cands[k]) # {}
         THEN PkgQuery(d, repos, arch, cands[k])
         ELSE TermIds(d, repos, arch, cands, k + 1)

\* The second query of ListPackage: the joined rows WHERE packages.id IN pkgIds
ListFiles(d, pkgIds) == {Result(j) : j \in {x \in Joined(d) : x.pid \in pkgIds}}

\* Database.ListPackage
ListPackage(d, repos, arch, terms) ==
    ListFiles(d, UNION {TermIds(d, repos, arch, Candidates(terms[t]), 1) :
                          t \in 1..Len(terms)})

\* ------------------------------------------------------------------------
\* Bounds and the data of the model
\* ------------------------------------------------------------------------

\* Wallclock and timestamps count half hours since time.Time{} (the zero time)
Hour == 2
ZeroTime == 0
\* time.Unix(0, 0) lies after the zero time
UnixEpoch == 1

\* The wallclock runs from Hour to MaxTime
MaxTime == 4
\* The tool is run (Refresh is called) at most MaxRuns times on one cache
MaxRuns == 2
\* The file-list timestamps repomd.xml can carry: 1..MaxStamp seconds
MaxStamp == 2

\* Return values are pairs (task, message); the nil error, ctx.Err() and the
\* mark of a Refresh that has not returned belong to no task
Nil == <<0, "nil">>
CtxErr == <<0, "context canceled">>
Running == <<0, "running">>

x86_64 == <<"x", "8", "6">>
aarch64 == <<"a", "6", "4">>
noarch == <<"n", "o", "a", "r", "c", "h">>

\* zypper.Repository values
RepoA == [alias |-> "a", name |-> "A", url |-> <<"http://", "a">>,
          type |-> "rpm-md", enabled |-> TRUE]
RepoB == [alias |-> "b", name |-> "B", url |-> <<"https://", "b">>,
          type |-> "rpm-md", enabled |-> FALSE]
RepoF == [alias |-> "f", name |-> "F", url |-> <<"ftp://", "f">>,
          type |-> "rpm-md", enabled |-> TRUE]
RepoY == [alias |-> "y", name |-> "Y", url |-> <<"http://", "y">>,
          type |-> "yast2", enabled |-> TRUE]

\* The repository lists zypper reports
RepoLists == {<<RepoA, RepoB>>, <<RepoF, RepoY>>}

\* <package> elements of filelists.xml
PkgFoo == [pkgid |-> "p1", name |-> <<"f">>, arch |-> x86_64, epoch |-> "0",
           ver |-> <<"1">>, rel |-> <<"1">>,
           files |-> <<[type |-> "", path |-> <<"/", "f">>],
                       [type |-> "dir", path |-> <<"/", "d">>],
                       [type |-> "", path |-> <<"r">>]>>]
PkgBar == [pkgid |-> "p2", name |-> <<"b">>, arch |-> noarch, epoch |-> "1",
           ver |-> <<"2">>, rel |-> <<"1">>,
           files |-> <<[type |-> "", path |-> <<"/", "b">>],
                       [type |-> "ghost", path |-> <<"/", "g">>]>>]
PkgBaz == [pkgid |-> "p3", name |-> <<"f">>, arch |-> aarch64, epoch |-> "",
           ver |-> <<"2">>, rel |-> <<"1">>,
           files |-> <<[type |-> "", path |-> <<"/", "f">>]>>]

\* A package with no file that is kept: a directory and a relative path
PkgDoc == [pkgid |-> "p4", name |-> <<"d">>, arch |-> x86_64, epoch |-> "0",
           ver |-> <<"1">>, rel |-> <<"1">>,
           files |-> <<[type |-> "dir", path |-> <<"/", "d">>],
                       [type |-> "", path |-> <<"r">>]>>]

\* The file lists a server can publish (no pkgid twice in one list)
FileLists == << <<PkgFoo, PkgBar>>, <<PkgBaz>>, <<PkgDoc, PkgFoo>> >>

\* What the server of `repo` publishes under file-list timestamp sec
Published(repo, sec) ==
    FileLists[((sec + (IF repo.enabled THEN 0 ELSE 1)) % Len(FileLists)) + 1]

\* ------------------------------------------------------------------------
\* The refresh coordinator
\* ------------------------------------------------------------------------

VARIABLES
    now,      \* the wallclock
    run,      \* the number of the current run of the tool
    repos,    \* the repository list of the runs
    cur,      \* the cache as the single connection sees it
    journal,  \* the cache as of the last commit, while a transaction is open
    conn,     \* the task holding the connection (0: free)
    pc,       \* each task's position in updateRepository
    loc,      \* each task's local variables
    result,   \* each finished task's return value
    http,     \* per task, the GETs issued for repomd.xml and for the file-list
    group,    \* the errgroup: its first error, and whether ctx is cancelled
    order,    \* the tasks in the order they returned
    ret,      \* what Refresh returned (Running until it has)
    obs,      \* what a reader's queries saw, before and during the refresh
    opn,      \* Database.New on a stored file: the file, and the cache opened
    am,       \* one evaluation of the arch clause: package arch, arch, answer
    lp,       \* one call of Database.ListPackage, candidate by candidate
    cmd,      \* one call of a command's Run, query by query
    once,     \* zypper.Arch: the one-shot initialiser and its callers
    proc,     \* one run of the tool, from run's first call to the exit code
    disp,     \* one result as the text output renders its version
    net,      \* the HTTP response bodies of one refresh task: open or closed
    st,       \* a cache under UpdateRepository and GetTimestamps calls
    conf      \* config.Read: the configuration file, the flags, the result

coordVars == <<now, run, repos, cur, journal, conn, pc, loc, result, http,
               group, order, ret, obs>>

\* The variables of the scenarios that exercise one function of the cache on
\* its own; the coordinator leaves them alone
pureVars == <<opn, am, lp, cmd, once, proc, disp, net, st, conf>>

Idle == [pc |-> "idle"]

\* No query made yet
NoObs == [old |-> <<>>, rows |-> <<>>, mid |-> {}]

Tasks == 1..Len(repos)

Err(i, what) == <<i, what>>

NoLoc == [lastUpdated |-> ZeroTime, lastModified |-> ZeroTime,
          start |-> ZeroTime, ts |-> ZeroTime,
          data |-> <<>>, k |-> 0, rowid |-> 0, old |-> {}, out |-> "",
          txErr |-> ""]

\* time.Unix(sec, 0).UTC()
Unix(sec) == UnixEpoch + sec

\* strings.HasPrefix(repo.URL, "http://") || strings.HasPrefix(repo.URL, "https://")
IsHttp(repo) ==
    HasPrefix(repo.url, <<"http://">>) \/ HasPrefix(repo.url, <<"https://">>)

\* A refresh that takes a repository of any type
IsRpmMdAnyType(repo) == TRUE

\* repo.Type != "rpm-md" is skipped
IsRpmMd(repo) == repo.type = "rpm-md"

\* A Scan into the two variables the other way round
GetTimestampsSwapped(d, repo) ==
    LET rows == {r \in d.repos : r.url = repo.url}
    IN  IF rows = {} THEN <<ZeroTime, ZeroTime>>
        ELSE LET r == CHOOSE x \in rows : TRUE
             IN  <<r.lastModified, r.lastChecked>>

\* Database.GetTimestamps: (lastChecked, lastModified) of the row holding the
\* url, the zero time twice when there is none (sql.ErrNoRows)
GetTimestamps(d, repo) ==
    LET rows == {r \in d.repos : r.url = repo.url}
    IN  IF rows = {} THEN <<ZeroTime, ZeroTime>>
        ELSE LET r == CHOOSE x \in rows : TRUE
             IN  <<r.lastChecked, r.lastModified>>

\* A freshness test that takes the boundary for fresh
IsFreshAtBoundary(lastUpdated, t) == lastUpdated + Hour >= t

\* A faulty freshness test: Before in place of After
IsFreshBefore(lastUpdated, t) == lastUpdated + Hour < t

\* lastUpdated.Add(time.Hour).After(time.Now())
IsFresh(lastUpdated, t) == lastUpdated + Hour > t

\* A faulty gate: the comparison is never true
TimestampNeverEqual(timestamp, lastModified) == FALSE

\* timestamp.Equal(lastModified)
TimestampEqual(timestamp, lastModified) == timestamp = lastModified

\* A faulty filter: directories are dropped, relative paths are kept
KeepFileNotDir(file) == file.type # "dir"

\* file.Type == "dir" and !filepath.IsAbs(file.Path) are skipped
KeepFile(file) == file.type # "dir" /\ IsAbs(file.path)

\* for _, file := range pkg.Files: the kept files go to the file callback
RECURSIVE AddFiles(_, _, _, _)
AddFiles(d, pkgid, files, k) ==
    IF k > Len(files) THEN d
    ELSE AddFiles(IF KeepFile(files[k]) THEN AddFile(d, pkgid, files[k].path) ELSE d,
                  pkgid, files, k + 1)

\* Whether the loop over pkg.Files reaches add at all: a package whose files
\* are all directories or relative paths is never handed over
HasKeptFile(pkg) == \E k \in 1..Len(pkg.files) : KeepFile(pkg.files[k])

\* One <package> of the loop over data.Package: nothing for a package
\* without a kept file; otherwise the package goes to the transaction with
\* its kept files.  The body is the one of the two-callback interface of
\* schema version 3, which takes epoch, version and release apart and whose
\* queries match version and release as separate columns; the loop of
\* src/repository/repository.go was written for the one-callback interface
\* of schema version 1 and folds the three into one string, which the
\* callbacks of this revision have no parameter for
AddOnePackage(d, rowid, pkg) ==
    IF ~HasKeptFile(pkg) THEN d
    ELSE AddFiles(AddPackage(d, rowid, pkg.pkgid, pkg.name, pkg.arch, pkg.epoch,
                             pkg.ver, pkg.rel),
                  pkg.pkgid, pkg.files, 1)

\* A faulty group: every failing task overwrites the error
GroupDoneLastWins(g, err) ==
    IF err # Nil THEN [err |-> err, cancelled |-> TRUE] ELSE g

\* errgroup: the first task to return an error sets the group's error and
\* cancels the context
GroupDone(g, err) ==
    IF err # Nil /\ g.err = Nil THEN [err |-> err, cancelled |-> TRUE] ELSE g

\* A transaction that ends without giving its connection back
ReleasedNever(c) == c

\* tx.Commit() and the deferred tx.Rollback() return the connection c of the
\* transaction to the pool
Released(c) == 0

\* A faulty pool: no cap on the open connections
ConnNotCapped(c) == TRUE

\* db.SetMaxOpenConns(1): a statement outside a transaction, and BeginTx,
\* wait until the one connection is free
ConnFree(c) == c = 0

\* An upsert stamped with the time of the write
LastCheckedAtWrite(start, t) == t

\* UpdateRepository(ctx, repo, updateStartTime, timestamp, ...): lastChecked
\* is the time taken before repomd.xml was fetched, whatever the time t of
\* the write
LastChecked(start, t) == start

\* A context whose cancellation no statement notices
CtxNeverDone(g) == FALSE

\* ctx.Done(): the shared context of the group is cancelled; every statement
\* and tx.Commit() then fail
CtxDone(g) == g.cancelled

\* A rollback that leaves the transaction's writes in place
RollbackKeepsWrites(c, j) == c

\* tx.Rollback(): the cache c goes back to j, its state at BeginTx
Rollback(c, j) == j

\* A Wait that returns once some task has
WaitFirst(p) == \E i \in DOMAIN p : p[i] = "done"

\* wg.Wait() returns when every task has
WaitDone(p) == \A i \in DOMAIN p : p[i] = "done"

\* A missing file list taken for nothing to do
NoFileListsIgnored(i) == Nil

\* "repository %s does not have file lists"
NoFileLists(i) == Err(i, "no file lists")

\* Whether the sha512 of the file list the server sends under timestamp sec
\* is the one its repomd.xml announces: the enabled repository's second
\* file list, and the disabled one's first, come with a wrong checksum
ChecksumOk(repo, sec) == sec # (IF repo.enabled THEN 2 ELSE 1)

\* A refresh that gives up on a wrong checksum
AfterChecksumAbort(sumOk) == sumOk

\* if sum != Checksum.Value { slog.Warn }: the refresh goes on either way
AfterChecksum(sumOk) == TRUE

\* The cache as of the last commit
Committed == IF conn = 0 THEN cur ELSE journal

\* All rows of the listed repositories, as a search for "*" returns them
AllRows(d) == SearchFile(d, repos, <<"*">>, <<>>)

\* The rows a search returns for one repository
RowsOf(d, repo) == SearchFile(d, <<repo>>, <<"*">>, <<>>)

\* A task returns err
Finish(i, err) ==
    /\ pc' = [pc EXCEPT ![i] = "done"]
    /\ result' = [result EXCEPT ![i] = err]
    /\ group' = GroupDone(group, err)
    /\ order' = Append(order, i)

CoordInit ==
    /\ now = Hour
    /\ run = 1
    /\ repos \in RepoLists
    /\ cur = initialize(NewFile)
    /\ journal = initialize(NewFile)
    /\ conn = 0
    /\ pc = [i \in Tasks |-> "start"]
    /\ loc = [i \in Tasks |-> NoLoc]
    /\ result = [i \in Tasks |-> Nil]
    /\ http = [i \in Tasks |-> [md |-> 0, fl |-> 0]]
    /\ group = [err |-> Nil, cancelled |-> FALSE]
    /\ order = <<>>
    /\ ret = Running
    /\ obs = NoObs

\* The coordinator at rest, for the scenarios that do not refresh
CoordIdle ==
    /\ now = Hour
    /\ run = 1
    /\ repos = <<>>
    /\ cur = NewFile
    /\ journal = NewFile
    /\ conn = 0
    /\ pc = <<>>
    /\ loc = <<>>
    /\ result = <<>>
    /\ http = <<>>
    /\ group = [err |-> Nil, cancelled |-> FALSE]
    /\ order = <<>>
    /\ ret = Running
    /\ obs = NoObs

PureIdle ==
    /\ opn = Idle /\ am = Idle /\ lp = Idle /\ cmd = Idle /\ once = Idle
    /\ proc = Idle /\ disp = Idle /\ net = Idle /\ st = Idle /\ conf = Idle

\* Refresh's closure and the head of updateRepository: a repository that is
\* not http(s), or not rpm-md, is skipped
Skip(i) ==
    /\ pc[i] = "start"
    /\ ~IsHttp(repos[i]) \/ ~IsRpmMd(repos[i])
    /\ Finish(i, Nil)
    /\ UNCHANGED <<now, run, repos, cur, journal, conn, loc, http, ret, obs>>
    /\ UNCHANGED pureVars

\* lastUpdated, lastModified, err := db.GetTimestamps(ctx, repo): the read
\* needs the connection; with the context cancelled it gives back the
\* context's error, which the task returns
ReadTimestamps(i) ==
    /\ pc[i] = "start"
    /\ IsHttp(repos[i]) /\ IsRpmMd(repos[i])
    /\ IF group.cancelled
       THEN /\ Finish(i, CtxErr)
            /\ UNCHANGED loc
       ELSE /\ ConnFree(conn)
            /\ LET t == GetTimestamps(cur, repos[i])
               IN  loc' = [loc EXCEPT ![i].lastUpdated = t[1],
                                      ![i].lastModified = t[2]]
            /\ pc' = [pc EXCEPT ![i] = "fresh"]
            /\ UNCHANGED <<result, group, order>>
    /\ UNCHANGED <<now, run, repos, cur, journal, conn, http, ret, obs>>
    /\ UNCHANGED pureVars

\* if lastUpdated.Add(time.Hour).After(time.Now()) { return nil }: the test
\* reads the clock, not the context
CheckFresh(i) ==
    /\ pc[i] = "fresh"
    /\ IF IsFresh(loc[i].lastUpdated, now)
       THEN Finish(i, Nil)
       ELSE /\ pc' = [pc EXCEPT ![i] = "stamp"]
            /\ UNCHANGED <<result, group, order>>
    /\ UNCHANGED <<now, run, repos, cur, journal, conn, loc, http, ret, obs>>
    /\ UNCHANGED pureVars

\* updateStartTime := time.Now().UTC(): a second reading of the clock
StampStart(i) ==
    /\ pc[i] = "stamp"
    /\ loc' = [loc EXCEPT ![i].start = now]
    /\ pc' = [pc EXCEPT ![i] = "repomd"]
    /\ UNCHANGED <<now, run, repos, cur, journal, conn, result, http, group,
                   order, ret, obs>>
    /\ UNCHANGED pureVars

\* A gate that stamps the repository row as checked before it returns
AtGateTouch(d, repo, start, ts) == UpsertRepositoryKeepChildren(d, repo, start, ts)

\* if timestamp.Equal(lastModified) { return nil }: the task ends at the
\* gate and the cache d is left as it is
AtGate(d, repo, start, ts) == d

\* A task that writes the cache right after the gate
AfterGateNoFetch(i) == "begin"

\* Past the timestamp gate the next step is the fetch of the file list
AfterGate(i) == "filelists"

\* fetch(repomd.xml), the decoding of repomd.xml, the search for the
\* filelists entry and the timestamp gate
FetchRepomd(i) ==
    /\ pc[i] = "repomd"
    /\ http' = [http EXCEPT ![i].md = @ + 1]
    /\ \E outcome \in {"fetchErr", "ok"} :
          /\ group.cancelled => outcome = "fetchErr"
          /\ IF outcome = "fetchErr"
             THEN /\ Finish(i, IF repos[i].enabled THEN Err(i, "fetch repomd.xml")
                                ELSE Nil)
                  /\ loc' = [loc EXCEPT ![i].out = outcome]
             ELSE /\ pc' = [pc EXCEPT ![i] = "repomdBody"]
                  /\ UNCHANGED <<loc, result, group, order>>
    /\ UNCHANGED <<now, run, repos, cur, journal, conn, ret, obs>>
    /\ UNCHANGED pureVars

\* xml.NewDecoder(mdBody).Decode(&repomd), which reads the body from the
\* network (the read fails or not, whether or not the context has been
\* cancelled since the response came), the search for the filelists entry and
\* the timestamp gate
DecodeRepomd(i) ==
    /\ pc[i] = "repomdBody"
    /\ \E outcome \in {"parseErr", "noFileLists", "ok"} :
       \E sec \in 1..MaxStamp :
          /\ outcome # "ok" => sec = 1
          /\ CASE outcome = "parseErr" ->
                    /\ Finish(i, Err(i, "parse repomd.xml"))
                    /\ loc' = [loc EXCEPT ![i].out = outcome]
               [] outcome = "noFileLists" ->
                    /\ Finish(i, NoFileLists(i))
                    /\ loc' = [loc EXCEPT ![i].out = outcome]
               [] outcome = "ok" ->
                    /\ loc' = [loc EXCEPT ![i].ts = Unix(sec), ![i].out = outcome]
                    /\ IF TimestampEqual(Unix(sec), loc[i].lastModified)
                       THEN Finish(i, Nil)
                       ELSE /\ pc' = [pc EXCEPT ![i] = AfterGate(i)]
                            /\ UNCHANGED <<result, group, order>>
    /\ cur' = IF pc'[i] = "done" /\ loc'[i].out = "ok"
              THEN AtGate(cur, repos[i], loc[i].start, loc'[i].ts)
              ELSE cur
    /\ UNCHANGED <<now, run, repos, journal, conn, http, ret, obs>>
    /\ UNCHANGED pureVars

\* fetch(filelists.xml), decompression and the decoding of the file list
\* A refresh that drops the rows of a repository whose file list failed
OnFileListErrorClear(d, repo) ==
    DeleteRepositories(d, {r \in d.repos : r.url = repo.url})

\* The error returns of the file-list fetch, of the decompressor and of the
\* XML decoder come before db.UpdateRepository: the cache d is left as it is
OnFileListError(d, repo) == d

FetchFileList(i) ==
    /\ pc[i] = "filelists"
    /\ http' = [http EXCEPT ![i].fl = @ + 1]
    /\ \E outcome \in {"fetchErr", "ok"} :
          /\ group.cancelled => outcome = "fetchErr"
          /\ IF outcome = "fetchErr"
             THEN /\ Finish(i, IF repos[i].enabled
                                THEN Err(i, "fetch filelists.xml") ELSE Nil)
                  /\ loc' = [loc EXCEPT ![i].out = outcome]
             ELSE /\ pc' = [pc EXCEPT ![i] = "filelistsBody"]
                  /\ UNCHANGED <<loc, result, group, order>>
    /\ cur' = IF pc'[i] = "done" THEN OnFileListError(cur, repos[i]) ELSE cur
    /\ UNCHANGED <<now, run, repos, journal, conn, ret, obs>>
    /\ UNCHANGED pureVars

\* The decompressor and xml.NewDecoder(fileListReader).Decode(&data), which
\* read the body from the network (the read fails or not, whether or not the
\* context has been cancelled since the response came), then the checksum
ReadFileList(i) ==
    /\ pc[i] = "filelistsBody"
    /\ \E outcome \in {"decompressErr", "parseErr", "ok"} :
          CASE outcome = "decompressErr" ->
                    /\ Finish(i, Err(i, "decompress filelists.xml"))
                    /\ loc' = [loc EXCEPT ![i].out = outcome]
            [] outcome = "parseErr" ->
                    /\ Finish(i, Err(i, "parse filelists.xml"))
                    /\ loc' = [loc EXCEPT ![i].out = outcome]
            [] outcome = "ok" ->
                    /\ loc' = [loc EXCEPT
                                 ![i].data = Published(repos[i], loc[i].ts - UnixEpoch),
                                 ![i].out = outcome]
                    /\ IF AfterChecksum(ChecksumOk(repos[i], loc[i].ts - UnixEpoch))
                       THEN /\ pc' = [pc EXCEPT ![i] = "begin"]
                            /\ UNCHANGED <<result, group, order>>
                       ELSE Finish(i, Err(i, "checksum"))
    /\ cur' = IF loc'[i].out = "ok" THEN cur ELSE OnFileListError(cur, repos[i])
    /\ UNCHANGED <<now, run, repos, journal, conn, http, ret, obs>>
    /\ UNCHANGED pureVars

\* Database.UpdateRepository up to the callback: BeginTx, the upsert of the
\* repository row, LastInsertId
TxBegin(i) ==
    /\ pc[i] = "begin"
    /\ IF group.cancelled
       THEN /\ Finish(i, CtxErr)
            /\ UNCHANGED <<cur, journal, conn, loc>>
       ELSE /\ ConnFree(conn)
            /\ conn' = i
            /\ journal' = cur
            /\ cur' = UpsertRepository(cur, repos[i], LastChecked(loc[i].start, now),
                                       loc[i].ts)
            /\ loc' = [loc EXCEPT ![i].rowid = cur'.seqRepo, ![i].k = 1,
                                  ![i].old = RowsOf(cur, repos[i])]
            /\ pc' = [pc EXCEPT ![i] = "body"]
            /\ UNCHANGED <<result, group, order>>
    /\ UNCHANGED <<now, run, repos, http, ret, obs>>
    /\ UNCHANGED pureVars

\* The callback: the next <package> of the file list goes into the transaction
TxAdd(i) ==
    /\ pc[i] = "body"
    /\ ~CtxDone(group)
    /\ loc[i].k <= Len(loc[i].data)
    /\ cur' = AddOnePackage(cur, loc[i].rowid, loc[i].data[loc[i].k])
    /\ loc' = [loc EXCEPT ![i].k = @ + 1]
    /\ UNCHANGED <<now, run, repos, journal, conn, pc, result, http, group,
                   order, ret, obs>>
    /\ UNCHANGED pureVars

\* tx.Commit()
TxCommit(i) ==
    /\ pc[i] = "body"
    /\ ~CtxDone(group)
    /\ loc[i].k > Len(loc[i].data)
    /\ conn' = Released(conn)
    /\ journal' = cur
    /\ pc' = [pc EXCEPT ![i] = "committed"]
    /\ UNCHANGED <<now, run, repos, cur, loc, result, group, order, http, ret, obs>>
    /\ UNCHANGED pureVars

\* A statement of the transaction fails (the context is cancelled, or SQLite
\* reports an error): the deferred tx.Rollback() restores the cache and gives
\* the connection back, while UpdateRepository is still on its way out
TxRollback(i) ==
    /\ pc[i] = "body"
    /\ conn' = Released(conn)
    /\ cur' = Rollback(cur, journal)
    /\ UNCHANGED journal
    /\ pc' = [pc EXCEPT ![i] = "unwind"]
    /\ loc' = [loc EXCEPT ![i].txErr = IF CtxDone(group) THEN "ctx" ELSE "update"]
    /\ UNCHANGED <<now, run, repos, result, group, order, http, ret, obs>>
    /\ UNCHANGED pureVars

\* UpdateRepository returns to the task and the closure to the errgroup: nil
\* after a commit, the error of the failed statement after a rollback, on
\* which the errgroup cancels the context if it is the first one
TxReturn(i) ==
    /\ pc[i] \in {"committed", "unwind"}
    /\ Finish(i, IF pc[i] = "committed" THEN Nil
                 ELSE IF loc[i].txErr = "ctx" THEN CtxErr ELSE Err(i, "update"))
    /\ UNCHANGED <<now, run, repos, cur, journal, conn, loc, http, ret, obs>>
    /\ UNCHANGED pureVars

\* wg.Wait(): once every task has returned it cancels the group's context,
\* error or not, and gives back the first error
RefreshReturn ==
    /\ ret = Running
    /\ WaitDone(pc)
    /\ ret' = group.err
    /\ group' = [group EXCEPT !.cancelled = TRUE]
    /\ UNCHANGED <<now, run, repos, cur, journal, conn, pc, loc, result, http,
                   order, obs>>
    /\ UNCHANGED pureVars

\* The tool is run again on the same cache
NextRun ==
    /\ ret # Running
    /\ run < MaxRuns
    /\ run' = run + 1
    /\ pc' = [i \in Tasks |-> "start"]
    /\ loc' = [i \in Tasks |-> NoLoc]
    /\ result' = [i \in Tasks |-> Nil]
    /\ http' = [i \in Tasks |-> [md |-> 0, fl |-> 0]]
    /\ group' = [err |-> Nil, cancelled |-> FALSE]
    /\ order' = <<>>
    /\ ret' = Running
    /\ obs' = NoObs
    /\ UNCHANGED <<now, repos, cur, journal, conn>>
    /\ UNCHANGED pureVars

\* Time passes
Tick ==
    /\ now < MaxTime
    /\ now' = now + 1
    /\ UNCHANGED <<run, repos, cur, journal, conn, pc, loc, result, http,
                   group, order, ret, obs>>
    /\ UNCHANGED pureVars

\* A reader's query on the cache handle (SearchFile, repository by
\* repository) before Refresh has started a task
QueryBefore ==
    /\ \A i \in Tasks : pc[i] = "start"
    /\ obs.old = <<>>
    /\ ConnFree(conn)
    /\ obs' = [obs EXCEPT !.old = [i \in Tasks |-> RowsOf(cur, repos[i])]]
    /\ UNCHANGED <<now, run, repos, cur, journal, conn, pc, loc, result, http,
                   group, order, ret>>
    /\ UNCHANGED pureVars

\* The reader's query while a refresh is under way: it needs the connection.
\* obs keeps what it returned for each repository and the tasks that were
\* between their start and their end
Query ==
    /\ obs.old # <<>>
    /\ \E i \in Tasks : pc[i] \notin {"start", "done"}
    /\ ConnFree(conn)
    /\ obs' = [obs EXCEPT !.rows = [i \in Tasks |-> RowsOf(cur, repos[i])],
                          !.mid = {i \in Tasks : pc[i] \notin {"start", "done"}}]
    /\ UNCHANGED <<now, run, repos, cur, journal, conn, pc, loc, result, http,
                   group, order, ret>>
    /\ UNCHANGED pureVars

CoordNext ==
    \/ \E i \in Tasks : Skip(i)
    \/ \E i \in Tasks : ReadTimestamps(i)
    \/ \E i \in Tasks : CheckFresh(i)
    \/ \E i \in Tasks : StampStart(i)
    \/ \E i \in Tasks : FetchRepomd(i)
    \/ \E i \in Tasks : DecodeRepomd(i)
    \/ \E i \in Tasks : FetchFileList(i)
    \/ \E i \in Tasks : ReadFileList(i)
    \/ \E i \in Tasks : TxBegin(i)
    \/ \E i \in Tasks : TxAdd(i)
    \/ \E i \in Tasks : TxCommit(i)
    \/ \E i \in Tasks : TxRollback(i)
    \/ \E i \in Tasks : TxReturn(i)
    \/ RefreshReturn
    \/ NextRun
    \/ Tick

vars == <<coordVars, pureVars>>

Init == CoordInit /\ PureIdle

Next == CoordNext

Spec == Init /\ [][Next]_vars

\* The coordinator with a reader on the same cache handle
QueryNext ==
    \/ CoordNext
    \/ QueryBefore
    \/ Query

SpecQuery == Init /\ [][QueryNext]_vars

\* ------------------------------------------------------------------------
\* Properties of the refresh coordinator and the cache
\* ------------------------------------------------------------------------

\* C2 (idempotent refresh): a task that starts on a repository whose row was
\* committed with lastChecked = t0 reads the row without a GET or a write,
\* and when it makes the freshness test at a time now with t0 + 1 hour > now
\* it ends in that step, with no GET issued and the cache as it was
C2_IdempotentRefresh ==
    [][\A i \in Tasks :
         /\ (/\ pc[i] = "start" /\ pc'[i] # "start"
             /\ IsHttp(repos[i]) /\ IsRpmMd(repos[i]))
            => (/\ pc'[i] \in {"fresh", "done"}
                /\ http'[i] = [md |-> 0, fl |-> 0]
                /\ cur' = cur)
         /\ (/\ pc[i] = "fresh" /\ pc'[i] # "fresh"
             /\ \E r \in Committed.repos :
                   r.url = repos[i].url /\ r.lastChecked + Hour > now)
            => (/\ pc'[i] = "done"
                /\ http'[i] = [md |-> 0, fl |-> 0]
                /\ cur' = cur)]_vars

\* A second run in which a task on a repository refreshed less than an hour
\* before has returned nil without a GET
C2_Witness ==
    /\ run = 2
    /\ \E i \in Tasks :
          /\ pc[i] = "done" /\ result[i] = Nil
          /\ IsHttp(repos[i]) /\ IsRpmMd(repos[i])
          /\ http[i] = [md |-> 0, fl |-> 0]
          /\ \E r \in cur.repos :
                r.url = repos[i].url /\ r.lastChecked + Hour > now

\* C3 (timestamp gate): a task that got past the freshness test and found in
\* repomd.xml the file-list timestamp stored as lastModified has returned nil
\* after one GET of repomd.xml and none of the file list
C3_TimestampGate ==
    \A i \in Tasks :
       (/\ pc[i] \notin {"start", "repomd"}
        /\ loc[i].ts # ZeroTime
        /\ loc[i].ts = loc[i].lastModified)
       => (/\ pc[i] = "done"
           /\ result[i] = Nil
           /\ http[i] = [md |-> 1, fl |-> 0])

\* The gate was taken: the window had expired, the timestamps were equal
C3_Witness ==
    \E i \in Tasks :
       /\ pc[i] = "done" /\ result[i] = Nil
       /\ loc[i].ts # ZeroTime
       /\ loc[i].ts = loc[i].lastModified
       /\ loc[i].start >= loc[i].lastModified
       /\ http[i].md = 1
       /\ \E r \in cur.repos :
             r.url = repos[i].url /\ ~(r.lastChecked + Hour > loc[i].start)

\* The package rows and the file rows of the file list `data`: the <file>
\* entries that are no directory and absolute, and every <package> that has
\* one
ListedPackages(data) ==
    {[pkgid |-> data[k].pkgid, name |-> data[k].name, arch |-> data[k].arch,
      epoch |-> data[k].epoch, version |-> data[k].ver, release |-> data[k].rel] :
        k \in {n \in 1..Len(data) :
                 \E m \in 1..Len(data[n].files) :
                    /\ data[n].files[m].type # "dir"
                    /\ Head(data[n].files[m].path) = "/"}}
ListedFiles(data) ==
    UNION {{[pkgid |-> data[k].pkgid, file |-> data[k].files[m].path] :
               m \in {n \in 1..Len(data[k].files) :
                        /\ data[k].files[n].type # "dir"
                        /\ Head(data[k].files[n].path) = "/"}} :
           k \in 1..Len(data)}

\* The package rows and the file rows the cache holds under a url
CachedPackages(d, url) ==
    {[pkgid |-> p.pkgid, name |-> p.name, arch |-> p.arch, epoch |-> p.epoch,
      version |-> p.version, release |-> p.release] :
        p \in {q \in d.pkgs : \E r \in d.repos : r.url = url /\ r.id = q.repository}}
CachedFiles(d, url) ==
    {[pkgid |-> t[1].pkgid, file |-> t[2].file] :
        t \in {u \in d.pkgs \X d.files :
                 /\ u[2].pkgid = u[1].id
                 /\ \E r \in d.repos : r.url = url /\ r.id = u[1].repository}}

\* C4 (full replacement): when a refresh commits, the package and file rows
\* under the repository's url are exactly those of the new file list
C4_FullReplacement ==
    [][\A i \in Tasks :
         (pc[i] = "body" /\ pc'[i] = "committed")
         => (/\ CachedPackages(cur', repos[i].url) = ListedPackages(loc[i].data)
             /\ CachedFiles(cur', repos[i].url) = ListedFiles(loc[i].data)
             /\ Cardinality({r \in cur'.repos : r.url = repos[i].url}) = 1)]_vars

\* A refresh has committed a one-file list over three cached files
C4_Witness ==
    \E i \in Tasks :
       /\ pc[i] = "done" /\ result[i] = Nil /\ http[i].fl = 1
       /\ Cardinality(loc[i].old) = 3
       /\ Cardinality(CachedFiles(cur, repos[i].url)) = 1
       /\ Cardinality(ListedFiles(loc[i].data)) = 1

\* C8: every file row is an absolute path that a <file> entry of its package,
\* of a type other than "dir", carries
C8_NoDirNoRelative ==
    \A f \in cur.files :
       /\ Head(f.file) = "/"
       /\ \E p \in cur.pkgs :
             /\ p.id = f.pkgid
             /\ \E n \in 1..Len(FileLists) : \E k \in 1..Len(FileLists[n]) :
                   /\ FileLists[n][k].pkgid = p.pkgid
                   /\ \E m \in 1..Len(FileLists[n][k].files) :
                         /\ FileLists[n][k].files[m].path = f.file
                         /\ FileLists[n][k].files[m].type # "dir"

\* A committed file list that held a directory and a relative path
C8_Witness ==
    \E i \in Tasks :
       /\ pc[i] = "done" /\ result[i] = Nil /\ http[i].fl = 1
       /\ \E k \in 1..Len(loc[i].data) : \E m \in 1..Len(loc[i].data[k].files) :
             /\ loc[i].data[k].files[m].type = "dir"
             /\ \E n \in 1..Len(loc[i].data[k].files) :
                   Head(loc[i].data[k].files[n].path) # "/"
       /\ CachedFiles(cur, repos[i].url) # {}

\* The first task, in the order of their returns, that returned an error
FirstFailed ==
    order[CHOOSE k \in 1..Len(order) :
            /\ result[order[k]] # Nil
            /\ \A m \in 1..(k - 1) : result[order[m]] = Nil]

\* C10: Refresh returns nil exactly when every task returned nil, otherwise
\* the error of the first task that returned one; while the tasks run the
\* context is cancelled as soon as one of them has returned an error, and
\* not before; the return of Wait cancels it in any case
C10_FirstErrorWins ==
    /\ ret = Running =>
          (group.cancelled <=> \E i \in Tasks : pc[i] = "done" /\ result[i] # Nil)
    /\ (\E i \in Tasks : pc[i] = "done" /\ result[i] # Nil)
       => (group.cancelled /\ group.err = result[FirstFailed])
    /\ ret # Running =>
          /\ group.cancelled
          /\ ret = Nil <=> \A i \in Tasks : result[i] = Nil
          /\ ret # Nil => ret = result[FirstFailed]

\* Refresh has returned the first of two different errors
C10_Witness ==
    /\ ret \notin {Running, Nil}
    /\ \E i, j \in Tasks :
          /\ result[i] # Nil /\ result[j] # Nil
          /\ result[i] # result[j]
          /\ ret = result[i]
          /\ order = <<i, j>>

\* ------------------------------------------------------------------------
\* Opening a stored cache (Database.New, Database.initialize)
\* ------------------------------------------------------------------------

\* Stored files carry a user_version from 0 to MaxVersion
MaxVersion == 4

\* UpdateRepository run to its commit on the cache d, with the body of the
\* caller of the two-callback interface: every <package> in turn
RECURSIVE LoadFrom(_, _, _, _)
LoadFrom(d, rowid, data, k) ==
    IF k > Len(data) THEN d
    ELSE LoadFrom(AddOnePackage(d, rowid, data[k]), rowid, data, k + 1)
Load(d, repo, lastChecked, lastModified, data) ==
    LET d1 == UpsertRepository(d, repo, lastChecked, lastModified)
    IN  LoadFrom(d1, d1.seqRepo, data, 1)

\* What earlier runs can have left in the three tables
StoredRows ==
    {initialize(NewFile),
     Load(initialize(NewFile), RepoA, Hour, Unix(1), FileLists[1]),
     Load(Load(initialize(NewFile), RepoA, Hour, Unix(1), FileLists[2]),
          RepoB, Hour, Unix(2), FileLists[3])}

\* The files Database.New can find: a file of the expected version holds the
\* three tables; a file of another version holds any of them, with the rows
\* of the tables it holds
StoredFiles ==
    {[version |-> v, tables |-> T,
      repos |-> IF "repositories" \in T THEN d.repos ELSE {},
      pkgs |-> IF "packages" \in T THEN d.pkgs ELSE {},
      files |-> IF "files" \in T THEN d.files ELSE {},
      seqRepo |-> IF "repositories" \in T THEN d.seqRepo ELSE 0,
      seqPkg |-> IF "packages" \in T THEN d.seqPkg ELSE 0] :
        <<v, T, d>> \in {t \in (0..MaxVersion) \X (SUBSET TableNames) \X StoredRows :
                           t[1] = userVersion => t[2] = TableNames}}

OpenInit ==
    /\ opn \in {[pc |-> "closed", file |-> f, db |-> f] : f \in StoredFiles}
    /\ am = Idle /\ lp = Idle /\ cmd = Idle /\ once = Idle
    /\ proc = Idle /\ disp = Idle /\ net = Idle
    /\ st = Idle
    /\ conf = Idle
    /\ CoordIdle

\* Database.New: open the file and initialize it
Open ==
    /\ opn.pc = "closed"
    /\ opn' = [opn EXCEPT !.pc = "open", !.db = initialize(opn.file)]
    /\ UNCHANGED <<coordVars, am, lp, cmd, once, proc, disp, net, st, conf>>

\* Database.Close: the cache is the stored file of the next run
Close ==
    /\ opn.pc = "open"
    /\ opn' = [opn EXCEPT !.pc = "closed", !.file = opn.db]
    /\ UNCHANGED <<coordVars, am, lp, cmd, once, proc, disp, net, st, conf>>

OpenNext == Open \/ Close

SpecOpen == OpenInit /\ [][OpenNext]_vars

\* C5 (schema migration): a cache opened from a file whose user_version is
\* not the expected one holds the three tables, no row in any of them, and
\* the expected user_version
C5_SchemaMigration ==
    (opn.pc = "open" /\ opn.file.version # userVersion)
    => (/\ opn.db.tables = TableNames
        /\ opn.db.repos = {} /\ opn.db.pkgs = {} /\ opn.db.files = {}
        /\ opn.db.version = userVersion)

\* A file of another version that held rows in its three tables was opened
C5_Witness ==
    /\ opn.pc = "open"
    /\ opn.file.version # userVersion
    /\ opn.file.repos # {} /\ opn.file.pkgs # {} /\ opn.file.files # {}

\* ------------------------------------------------------------------------
\* The arch clause of SearchFile and ListPackage
\* ------------------------------------------------------------------------

\* Package archs of up to MaxArchLen characters, requested archs of up to
\* MaxReqLen
MaxArchLen == 2
MaxReqLen == 3

ArchChars == {"x", "X", "6", "_"}

Strings(chars, n) == UNION {[1..m -> chars] : m \in 0..n}

ArchInit ==
    /\ am \in {[pc |-> "ask", pkgArch |-> a, arch |-> r, matched |-> FALSE] :
                 <<a, r>> \in (Strings(ArchChars, MaxArchLen) \cup {noarch})
                              \X Strings(ArchChars, MaxReqLen)}
    /\ opn = Idle /\ lp = Idle /\ cmd = Idle /\ once = Idle
    /\ proc = Idle /\ disp = Idle /\ net = Idle
    /\ st = Idle
    /\ conf = Idle
    /\ CoordIdle

\* The WHERE clause decides whether a package of arch pkgArch is returned
Match ==
    /\ am.pc = "ask"
    /\ am' = [am EXCEPT !.pc = "done", !.matched = ArchMatches(am.pkgArch, am.arch)]
    /\ UNCHANGED <<coordVars, opn, lp, cmd, once, proc, disp, net, st, conf>>

ArchNext == Match

SpecArch == ArchInit /\ [][ArchNext]_vars

\* C6 (arch matching), as claimed: a requested arch "" matches every
\* package; otherwise a package matches exactly when its arch is "noarch" or
\* a literal, case-sensitive prefix of the requested arch
C6_ArchMatching ==
    am.pc = "done" =>
       (am.matched <=> \/ am.arch = <<>>
                       \/ am.pkgArch = noarch
                       \/ /\ Len(am.pkgArch) <= Len(am.arch)
                          /\ \A k \in 1..Len(am.pkgArch) : am.pkgArch[k] = am.arch[k])

\* A cache state the claim's reading of the clause gets wrong was matched
C6_Diverges ==
    /\ am.pc = "done"
    /\ am.matched
    /\ am.arch # <<>> /\ am.pkgArch # noarch
    /\ ~HasPrefix(am.arch, am.pkgArch)

\* ------------------------------------------------------------------------
\* Database.ListPackage, one statement at a time
\* ------------------------------------------------------------------------

\* ListPackage is called with up to MaxTerms terms
MaxTerms == 2

ListPkg(id, name, arch, ver, rel) ==
    [pkgid |-> id, name |-> name, arch |-> arch, epoch |-> "0", ver |-> ver,
     rel |-> rel, files |-> <<[type |-> "", path |-> <<"/", id>>]>>]

\* Packages whose names, versions and releases make several candidates of
\* one term match
ListPkgs ==
    <<ListPkg("q1", <<"a", "-", "1", "-", "1">>, x86_64, <<"9">>, <<"9">>),
      ListPkg("q2", <<"a", "-", "1">>, x86_64, <<"1">>, <<"9">>),
      ListPkg("q3", <<"a">>, x86_64, <<"1">>, <<"1">>),
      ListPkg("q4", <<"a">>, aarch64, <<"1">>, <<"1">>),
      ListPkg("q5", <<"a">>, x86_64, <<"1">>, <<"2">>)>>

ListDbs ==
    {LET Chosen(p) == p.pkgid \in S
     IN  Load(initialize(NewFile), RepoA, Hour, Unix(1), SelectSeq(ListPkgs, Chosen)) :
        S \in SUBSET {"q1", "q2", "q3", "q4", "q5"}}

ListTerms ==
    {<<"a", "-", "1", "-", "1">>, <<"a", "-", "1">>, <<"a">>,
     <<"a", "-", "1", "-">>, <<"b">>}

ListInit ==
    /\ lp \in {[pc |-> "call", db |-> d, arch |-> a, terms |-> ts, t |-> 0,
                cands |-> <<>>, c |-> 0, found |-> FALSE, ids |-> {},
                log |-> <<>>, results |-> {}] :
                 <<d, a, ts>> \in ListDbs \X {<<>>, x86_64}
                                  \X UNION {[1..n -> ListTerms] : n \in 0..MaxTerms}}
    /\ opn = Idle /\ am = Idle /\ cmd = Idle /\ once = Idle
    /\ proc = Idle /\ disp = Idle /\ net = Idle
    /\ st = Idle
    /\ conf = Idle
    /\ CoordIdle

\* A loop that never leaves on a hit
CandidateLoopNoBreak(found, c, n) == c > n

\* for _, candidate := range candidates { ...; if found { break } }
CandidateLoopDone(found, c, n) == found \/ c > n

\* The three statements are prepared; the loop over the terms starts
LPCall ==
    /\ lp.pc = "call"
    /\ lp' = [lp EXCEPT !.pc = IF Len(lp.terms) = 0 THEN "files" ELSE "term",
                        !.t = 1]
    /\ UNCHANGED <<coordVars, opn, am, cmd, once, proc, disp, net, st, conf>>

\* One term: trim it and build its candidates
LPTerm ==
    /\ lp.pc = "term"
    /\ lp' = [lp EXCEPT !.pc = "cand", !.cands = Candidates(lp.terms[lp.t]),
                        !.c = 1, !.found = FALSE]
    /\ UNCHANGED <<coordVars, opn, am, cmd, once, proc, disp, net, st, conf>>

\* One candidate: run its statement and append the ids of its rows
LPCandidate ==
    /\ lp.pc = "cand"
    /\ ~CandidateLoopDone(lp.found, lp.c, Len(lp.cands))
    /\ LET rows == PkgQuery(lp.db, <<RepoA>>, lp.arch, lp.cands[lp.c])
       IN  lp' = [lp EXCEPT !.found = rows # {},
                            !.ids = lp.ids \cup rows,
                            !.log = Append(lp.log, [t |-> lp.t, args |-> lp.cands[lp.c],
                                                    rows |-> rows]),
                            !.c = lp.c + 1]
    /\ UNCHANGED <<coordVars, opn, am, cmd, once, proc, disp, net, st, conf>>

\* A loop over the terms that returns at the first term not found
AfterTermAbort(found, t, n) ==
    IF ~found THEN "done" ELSE IF t = n THEN "files" ELSE "term"

\* if !found { slog.ErrorContext(ctx, "package not found", ...) }: the term
\* loop goes on to the next term, or ends, found or not
AfterTerm(found, t, n) == IF t = n THEN "files" ELSE "term"

\* The candidate loop is left; on to the next term or to the second query
LPEndTerm ==
    /\ lp.pc = "cand"
    /\ CandidateLoopDone(lp.found, lp.c, Len(lp.cands))
    /\ lp' = [lp EXCEPT !.pc = AfterTerm(lp.found, lp.t, Len(lp.terms)),
                        !.t = lp.t + 1]
    /\ UNCHANGED <<coordVars, opn, am, cmd, once, proc, disp, net, st, conf>>

\* The second query: the files of the collected packages
LPFiles ==
    /\ lp.pc = "files"
    /\ lp' = [lp EXCEPT !.pc = "done", !.results = ListFiles(lp.db, lp.ids)]
    /\ UNCHANGED <<coordVars, opn, am, cmd, once, proc, disp, net, st, conf>>

ListNext == LPCall \/ LPTerm \/ LPCandidate \/ LPEndTerm \/ LPFiles

SpecList == ListInit /\ [][ListNext]_vars

\* The candidates the documentation promises for a term, written from its
\* words: the term less one trailing dash as a name; name and version around
\* its last dash; name, version and release around its last two dashes
NoDash(s) == \A k \in 1..Len(s) : s[k] # "-"
Trimmed(term) ==
    IF Len(term) > 0 /\ term[Len(term)] = "-" THEN SubSeq(term, 1, Len(term) - 1)
    ELSE term
Promised(term) ==
    LET s == Trimmed(term)
        two == {<<SubSeq(s, 1, i - 1), SubSeq(s, i + 1, Len(s))>> :
                  i \in {k \in 1..Len(s) : s[k] = "-" /\ NoDash(SubSeq(s, k + 1, Len(s)))}}
        three == {<<SubSeq(s, 1, ji[1] - 1), SubSeq(s, ji[1] + 1, ji[2] - 1),
                    SubSeq(s, ji[2] + 1, Len(s))>> :
                    ji \in {x \in (1..Len(s)) \X (1..Len(s)) :
                              /\ x[1] < x[2] /\ s[x[1]] = "-" /\ s[x[2]] = "-"
                              /\ NoDash(SubSeq(s, x[1] + 1, x[2] - 1))
                              /\ NoDash(SubSeq(s, x[2] + 1, Len(s)))}}
    IN  << <<s>> >>
        \o (IF two = {} THEN <<>> ELSE <<CHOOSE x \in two : TRUE>>)
        \o (IF three = {} THEN <<>> ELSE <<CHOOSE x \in three : TRUE>>)

\* The statements run for the t-th term, in the order they ran
LogOf(t) == LET OfT(e) == e.t = t IN SelectSeq(lp.log, OfT)
TermOver(t) == lp.pc \in {"files", "done"} \/ lp.t > t

\* C7 (term splitting): the statements run for a term are the promised
\* candidates in their order; none runs after one that returned a row; a
\* finished term stopped at its first candidate with rows or ran them all;
\* and the ids collected are those of each term's first candidate with rows
C7_TermSplitting ==
    lp.pc # "idle" =>
      /\ \A t \in 1..Len(lp.terms) :
           LET L == LogOf(t)
               E == Promised(lp.terms[t])
           IN  /\ Len(L) <= Len(E)
               /\ \A k \in 1..Len(L) : L[k].args = E[k]
               /\ \A k \in 1..(Len(L) - 1) : L[k].rows = {}
               /\ TermOver(t) => (Len(L) = Len(E) \/ L[Len(L)].rows # {})
      /\ lp.ids = UNION {e.rows : e \in {lp.log[k] : k \in 1..Len(lp.log)}}
      /\ lp.pc = "done" => lp.results = ListPackage(lp.db, <<RepoA>>, lp.arch, lp.terms)

\* A term with three candidates was answered by its second one, with two
\* package ids, and the third was never run
C7_Witness ==
    /\ lp.pc = "done"
    /\ lp.results # {}
    /\ \E t \in 1..Len(lp.terms) :
         /\ Len(Promised(lp.terms[t])) = 3
         /\ Len(LogOf(t)) = 2
         /\ LogOf(t)[1].rows = {}
         /\ Cardinality(LogOf(t)[2].rows) >= 1

\* ------------------------------------------------------------------------
\* The commands' drivers (command.Run of file-search and of file-list)
\* ------------------------------------------------------------------------

PkgQux == [pkgid |-> "p4", name |-> <<"f">>, arch |-> x86_64, epoch |-> "0",
           ver |-> <<"3">>, rel |-> <<"1">>,
           files |-> <<[type |-> "", path |-> <<"/", "f">>]>>]

\* Caches with the rows of an enabled and of a disabled repository
RunDbs ==
    {Load(Load(initialize(NewFile), RepoA, Hour, Unix(1), la), RepoB, Hour, Unix(1), lb) :
        <<la, lb>> \in {<<>>, <<PkgFoo>>, <<PkgBaz>>, <<PkgFoo, PkgBaz>>}
                       \X {<<>>, <<PkgBar>>, <<PkgQux>>}}

\* The command lines: flag.Args()
RunArgs ==
    {<<>>, << <<"/", "f">> >>, << <<"/", "*">> >>, << <<"f">> >>, << <<"b">> >>,
     << <<"f">>, <<"b">> >>}

\* The repositories a query with the enabled flag looks at: the enabled ones
\* when it is set, all of them otherwise
EnabledOnly(list, enabled) ==
    LET IsEnabled(r) == r.enabled
    IN  IF enabled THEN SelectSeq(list, IsEnabled) ELSE list

\* db.SearchFile(ctx, pattern, arch, enabled)
SearchFileEnabled(d, pattern, arch, enabled) ==
    SearchFile(d, EnabledOnly(<<RepoA, RepoB>>, enabled), pattern, arch)

\* db.ListPackage(ctx, arch, enabled, terms...)
ListPackageEnabled(d, arch, enabled, terms) ==
    ListPackage(d, EnabledOnly(<<RepoA, RepoB>>, enabled), arch, terms)

RunInit ==
    /\ cmd \in {[pc |-> "start", kind |-> k, db |-> d, args |-> as, detected |-> a,
                 archFails |-> af, archs |-> <<>>, a |-> 1, e |-> 1,
                 results |-> {}, err |-> "", log |-> <<>>] :
                  <<k, d, as, a, af>> \in {"filesearch", "filelist"} \X RunDbs \X RunArgs
                                           \X {x86_64, aarch64} \X BOOLEAN}
    /\ opn = Idle /\ am = Idle /\ lp = Idle /\ once = Idle
    /\ proc = Idle /\ disp = Idle /\ net = Idle
    /\ st = Idle
    /\ conf = Idle
    /\ CoordIdle

\* Run up to its loop: the check of the arguments and zypper.Arch()
RunStart ==
    /\ cmd.pc = "start"
    /\ cmd' =
         IF cmd.kind = "filesearch"
         THEN IF Len(cmd.args) # 1
              THEN [cmd EXCEPT !.pc = "done", !.err = "usage"]
              ELSE [cmd EXCEPT !.pc = "loop",
                               !.archs = <<IF cmd.archFails THEN <<>> ELSE cmd.detected,
                                           <<>> >>]
         ELSE IF Len(cmd.args) = 0
              THEN [cmd EXCEPT !.pc = "done", !.err = "usage"]
              ELSE IF cmd.archFails
                   THEN [cmd EXCEPT !.pc = "done", !.err = "arch"]
                   ELSE [cmd EXCEPT !.pc = "loop", !.archs = <<cmd.detected, <<>> >>]
    /\ UNCHANGED <<coordVars, opn, am, lp, once, proc, disp, net, st, conf>>

\* file-search: one pass of the inner loop over enabled in {true, false};
\* its break leaves the inner loop, and the outer loop goes on
FileSearchStep ==
    /\ cmd.pc = "loop" /\ cmd.kind = "filesearch"
    /\ LET enabled == cmd.e = 1
           res == SearchFileEnabled(cmd.db, cmd.args[1], cmd.archs[cmd.a], enabled)
           inner == res # {} \/ cmd.e = 2
           over == inner /\ cmd.a = 2
       IN  cmd' = [cmd EXCEPT !.results = res,
                              !.log = Append(cmd.log, [arch |-> cmd.archs[cmd.a],
                                                       enabled |-> enabled,
                                                       results |-> res]),
                              !.e = IF inner THEN 1 ELSE 2,
                              !.a = IF inner THEN cmd.a + 1 ELSE cmd.a,
                              !.pc = IF over THEN "done" ELSE "loop"]
    /\ UNCHANGED <<coordVars, opn, am, lp, once, proc, disp, net, st, conf>>

\* file-list: one pass of its loop over the archs, always with enabled true;
\* its break leaves the loop, and no result at its end is an error
FileListStep ==
    /\ cmd.pc = "loop" /\ cmd.kind = "filelist"
    /\ LET res == ListPackageEnabled(cmd.db, cmd.archs[cmd.a], TRUE, cmd.args)
           over == res # {} \/ cmd.a = 2
       IN  cmd' = [cmd EXCEPT !.results = res,
                              !.log = Append(cmd.log, [arch |-> cmd.archs[cmd.a],
                                                       enabled |-> TRUE,
                                                       results |-> res]),
                              !.a = cmd.a + 1,
                              !.pc = IF over THEN "done" ELSE "loop",
                              !.err = IF over /\ res = {} THEN "no results found" ELSE ""]
    /\ UNCHANGED <<coordVars, opn, am, lp, once, proc, disp, net, st, conf>>

RunNext == RunStart \/ FileSearchStep \/ FileListStep

SpecRun == RunInit /\ [][RunNext]_vars

\* The four combinations in the promised order, and their first non-empty
\* result
Combination(n) ==
    LET arch == IF n <= 2 THEN cmd.detected ELSE <<>>
        enabled == n \in {1, 3}
    IN  IF cmd.kind = "filesearch"
        THEN SearchFileEnabled(cmd.db, cmd.args[1], arch, enabled)
        ELSE ListPackageEnabled(cmd.db, arch, enabled, cmd.args)
FirstNonEmpty ==
    IF \A n \in 1..4 : Combination(n) = {} THEN {}
    ELSE Combination(CHOOSE n \in 1..4 :
                       Combination(n) # {} /\ \A m \in 1..(n - 1) : Combination(m) = {})

\* C9 (fallback order), as claimed: the result a command returns is the
\* first non-empty result of (detected, enabled), (detected, any), ("",
\* enabled), ("", any), and no later combination's result replaces it
C9_FallbackOrder ==
    (cmd.pc = "done" /\ cmd.err \in {"", "no results found"} /\ ~cmd.archFails)
    => cmd.results = FirstNonEmpty

\* file-search returned the rows of a later combination over the non-empty
\* result of an earlier one
C9_LaterReplacesEarlier ==
    /\ cmd.pc = "done" /\ cmd.kind = "filesearch" /\ ~cmd.archFails
    /\ \E k \in 1..Len(cmd.log) :
         /\ cmd.log[k].results # {}
         /\ cmd.log[k].results # cmd.results
         /\ k < Len(cmd.log)

\* ------------------------------------------------------------------------
\* One invocation of the tool (run): the refresh, then the command
\* ------------------------------------------------------------------------

\* slices.DeleteFunc(repos, func(r) bool { return !r.Enabled })
DeleteDisabled(rs) ==
    LET IsEnabled(r) == r.enabled
    IN  SelectSeq(rs, IsEnabled)

\* if cfg.Enabled { repos = slices.DeleteFunc(...) }
FilterRepos(enabled, listed) ==
    IF enabled THEN DeleteDisabled(listed) ELSE listed

\* run is entered on a cache that earlier invocations left, refreshed within
\* the hour or not; with cfg.Enabled (the default) the disabled repositories
\* of the list zypper reports are dropped before Refresh and the command
MainInit ==
    /\ now \in {Hour, Hour + Hour}
    /\ run = 1
    /\ \E listed \in RepoLists : \E enabled \in BOOLEAN :
          /\ repos = FilterRepos(enabled, listed)
          /\ cmd = [pc |-> "refresh", results |-> {}, exit |-> 0,
                    enabled |-> enabled]
    /\ cur \in StoredRows
    /\ journal = cur
    /\ conn = 0
    /\ pc = [i \in Tasks |-> "start"]
    /\ loc = [i \in Tasks |-> NoLoc]
    /\ result = [i \in Tasks |-> Nil]
    /\ http = [i \in Tasks |-> [md |-> 0, fl |-> 0]]
    /\ group = [err |-> Nil, cancelled |-> FALSE]
    /\ order = <<>>
    /\ ret = Running
    /\ obs = NoObs
    /\ opn = Idle /\ am = Idle /\ lp = Idle /\ once = Idle
    /\ proc = Idle /\ disp = Idle /\ net = Idle /\ st = Idle /\ conf = Idle

\* A driver that goes on to the command whatever Refresh returned
RefreshFailedIgnored(err) == FALSE

\* if err := repository.Refresh(ctx, db, repos); err != nil
RefreshFailed(err) == err # Nil

\* main: if err := run(ctx); err != nil { slog.Error(...); os.Exit(1) }
MainExitCode(err) == IF err = Nil THEN 0 ELSE 1

\* if err := repository.Refresh(...); err != nil { return err }
MainFail ==
    /\ cmd.pc = "refresh"
    /\ ret # Running
    /\ RefreshFailed(ret)
    /\ cmd' = [cmd EXCEPT !.pc = "failed", !.exit = MainExitCode(ret)]
    /\ UNCHANGED <<coordVars, opn, am, lp, once, proc, disp, net, st, conf>>

\* results, err := cmd.Run(...): the command's query, on the connection
MainRun ==
    /\ cmd.pc = "refresh"
    /\ ret # Running
    /\ ~RefreshFailed(ret)
    /\ ConnFree(conn)
    /\ cmd' = [cmd EXCEPT !.pc = "queried", !.results = AllRows(cur)]
    /\ UNCHANGED <<coordVars, opn, am, lp, once, proc, disp, net, st, conf>>

MainNext ==
    \/ \E i \in Tasks : Skip(i)
    \/ \E i \in Tasks : ReadTimestamps(i)
    \/ \E i \in Tasks : CheckFresh(i)
    \/ \E i \in Tasks : StampStart(i)
    \/ \E i \in Tasks : FetchRepomd(i)
    \/ \E i \in Tasks : DecodeRepomd(i)
    \/ \E i \in Tasks : FetchFileList(i)
    \/ \E i \in Tasks : ReadFileList(i)
    \/ \E i \in Tasks : TxBegin(i)
    \/ \E i \in Tasks : TxAdd(i)
    \/ \E i \in Tasks : TxCommit(i)
    \/ \E i \in Tasks : TxRollback(i)
    \/ \E i \in Tasks : TxReturn(i)
    \/ RefreshReturn
    \/ MainFail
    \/ MainRun

SpecMain == MainInit /\ [][MainNext]_vars

\* C11 (query after refresh): the command's query is issued when every
\* refresh task has returned and no transaction is open, it returns the
\* committed rows, and no task takes a step once it has been issued
C11_QueryAfterRefresh ==
    [][/\ (cmd.pc = "refresh" /\ cmd'.pc = "queried")
          => (/\ \A i \in Tasks : pc[i] = "done"
              /\ conn = 0
              /\ cmd'.results = AllRows(Committed))
       /\ cmd.pc = "queried" => (pc' = pc /\ cur' = cur /\ conn' = conn)]_vars

\* The command found the rows that one task of this refresh committed while
\* the other returned without a write
C11_Witness ==
    /\ cmd.pc = "queried"
    /\ cmd.results # {}
    /\ \E i, j \in Tasks :
          /\ result[i] = Nil /\ http[i].fl = 1 /\ loc[i].k > 1
          /\ i # j /\ loc[j].rowid = 0

\* ------------------------------------------------------------------------
\* Transactions, cancellation and errors of the refresh
\* ------------------------------------------------------------------------

\* C12 (all or nothing): when UpdateRepository returns an error the cache is
\* what it was at BeginTx: the last commit, with the repository's rows and
\* its lastModified as the task found them; when it returns nil, everything
\* it wrote is committed
C12_AllOrNothing ==
    [][\A i \in Tasks :
         /\ (pc[i] = "body" /\ pc'[i] # "body")
            => IF pc'[i] = "committed"
               THEN /\ result' = result
                    /\ cur' = cur
                    /\ Committed' = cur
                    /\ CachedPackages(cur', repos[i].url) = ListedPackages(loc[i].data)
               ELSE /\ cur' = Committed
                    /\ conn' = 0
                    /\ RowsOf(cur', repos[i]) = loc[i].old
                    /\ GetTimestamps(cur', repos[i])[2] = loc[i].lastModified
                    /\ \A r \in cur'.repos :
                          r.url = repos[i].url => r.lastChecked < loc[i].start
         /\ (pc[i] = "committed" /\ pc'[i] # "committed")
            => (pc'[i] = "done" /\ result'[i] = Nil /\ cur' = cur)
         /\ (pc[i] = "unwind" /\ pc'[i] # "unwind")
            => (pc'[i] = "done" /\ result'[i] # Nil /\ cur' = cur)]_vars

\* A transaction that had replaced the repository's row and written packages
\* over cached rows failed, and the cached rows are back
C12_Witness ==
    \E i \in Tasks :
       /\ pc[i] = "done" /\ result[i] = Err(i, "update")
       /\ loc[i].k > 1
       /\ loc[i].old # {}
       /\ RowsOf(cur, repos[i]) = loc[i].old
       /\ UpsertRepository(cur, repos[i], loc[i].start, loc[i].ts) # cur

\* C13 (cancellation rolls back): a task whose transaction is open when the
\* context is cancelled returns the context's error with the repository's
\* rows as they were before; they still are when Refresh has returned
C13_CancelledRollsBack ==
    /\ [](ret # Running
          => \A i \in Tasks :
                (result[i] = CtxErr /\ loc[i].rowid # 0)
                => (/\ RowsOf(cur, repos[i]) = loc[i].old
                    /\ GetTimestamps(cur, repos[i])[2] = loc[i].lastModified))
    /\ [][\A i \in Tasks :
            /\ (pc[i] = "body" /\ group.cancelled /\ pc'[i] # "body")
               => (/\ pc'[i] = "unwind" /\ loc'[i].txErr = "ctx"
                   /\ RowsOf(cur', repos[i]) = loc[i].old
                   /\ cur' = Committed)
            /\ (pc[i] = "unwind" /\ loc[i].txErr = "ctx" /\ pc'[i] # "unwind")
               => (/\ pc'[i] = "done" /\ result'[i] = CtxErr
                   /\ RowsOf(cur', repos[i]) = loc[i].old)]_vars

\* Refresh returned a sibling's error; the cancelled task had replaced its
\* cached rows in part, and they are back
C13_Witness ==
    /\ ret \notin {Running, Nil, CtxErr}
    /\ \E i \in Tasks :
          /\ result[i] = CtxErr
          /\ loc[i].rowid # 0 /\ loc[i].k > 1
          /\ loc[i].old # {}
          /\ RowsOf(cur, repos[i]) = loc[i].old

\* C14 (serialised writes): at most one task has a transaction open, it holds
\* the connection, and while it stays open the cache changes only by that
\* task's next statement
C14_SerialisedWrites ==
    /\ [](/\ \A i, j \in Tasks : (pc[i] = "body" /\ pc[j] = "body") => i = j
          /\ \A i \in Tasks : pc[i] = "body" <=> conn = i)
    /\ [][\A i \in Tasks :
            (pc[i] = "body" /\ pc'[i] = "body")
            => (cur' = cur \/ loc'[i].k = loc[i].k + 1)]_vars

\* One task is in the middle of its transaction while the other, its file
\* list decoded, waits for the connection
C14_Witness ==
    \E i, j \in Tasks :
       /\ i # j
       /\ pc[i] = "body" /\ loc[i].k > 1 /\ loc[i].k <= Len(loc[i].data)
       /\ pc[j] = "begin" /\ ~group.cancelled

\* What a task's fetch or decoding ended with, when it failed
FetchOrParseErrors == {"fetchErr", "parseErr", "noFileLists", "decompressErr"}

\* C15 (disabled repositories), as claimed: a task on a disabled repository
\* that met a fetch error or a parse error, of repomd.xml or of the file
\* list, returned nil and wrote nothing
C15_DisabledDemoted ==
    \A i \in Tasks :
       (/\ pc[i] = "done"
        /\ ~repos[i].enabled
        /\ loc[i].out \in FetchOrParseErrors)
       => (result[i] = Nil /\ loc[i].rowid = 0)

\* repomd.xml of a disabled repository did not parse, and Refresh returned
\* that task's error
C15_ParseErrorReturned ==
    \E i \in Tasks :
       /\ ~repos[i].enabled
       /\ loc[i].out = "parseErr"
       /\ result[i] # Nil
       /\ ret = result[i]

\* C16 (missing file list): a task on an enabled repository whose repomd.xml
\* has no filelists entry returns an error; the group's context is cancelled
\* and Refresh returns an error
C16_MissingFileListFatal ==
    \A i \in Tasks :
       (pc[i] = "done" /\ repos[i].enabled /\ loc[i].out = "noFileLists")
       => (/\ result[i] # Nil
           /\ http[i] = [md |-> 1, fl |-> 0]
           /\ loc[i].rowid = 0
           /\ group.cancelled
           /\ group.err # Nil
           /\ ret # Running => ret # Nil)

\* Refresh returned the error of the missing file list, and the sibling was
\* cancelled on its way
C16_Witness ==
    \E i, j \in Tasks :
       /\ repos[i].enabled /\ loc[i].out = "noFileLists"
       /\ ret = result[i] /\ ret = Err(i, "no file lists")
       /\ i # j /\ result[j] = CtxErr /\ http[j].md = 1

\* C17 (checksum mismatch): a task whose file list came with a wrong
\* checksum never returns an error for it; when its transaction commits, the
\* task returns nil, the rows of the file list are the repository's
\* committed rows and a search finds them
C17_ChecksumMismatchKept ==
    /\ [](\A i \in Tasks :
            (/\ loc[i].out = "ok" /\ http[i].fl = 1
             /\ ~ChecksumOk(repos[i], loc[i].ts - UnixEpoch))
            => (/\ pc[i] \in {"filelistsBody", "begin", "body", "committed", "unwind", "done"}
                /\ pc[i] = "done" => result[i] \in {Nil, CtxErr, Err(i, "update")}))
    /\ [][\A i \in Tasks :
            (/\ pc[i] = "body" /\ pc'[i] = "committed"
             /\ ~ChecksumOk(repos[i], loc[i].ts - UnixEpoch))
            => (/\ CachedPackages(Committed', repos[i].url) = ListedPackages(loc[i].data)
                /\ CachedFiles(Committed', repos[i].url) = ListedFiles(loc[i].data)
                /\ \E r \in SearchFile(Committed', <<repos[i]>>, <<"*">>, <<>>) :
                      r.repository = repos[i].name)]_vars

\* A file list with a wrong checksum was committed
C17_Witness ==
    \E i \in Tasks :
       /\ pc[i] = "done" /\ result[i] = Nil
       /\ loc[i].out = "ok" /\ http[i].fl = 1
       /\ ~ChecksumOk(repos[i], loc[i].ts - UnixEpoch)
       /\ RowsOf(cur, repos[i]) # {}

\* A repository Refresh has nothing to do for: a url that is neither http
\* nor https, or a type other than rpm-md
Ineligible(repo) ==
    \/ repo.url[1] \notin {"http://", "https://"}
    \/ repo.type # "rpm-md"

\* C18 (eligibility): the task of an ineligible repository returns nil in
\* its first step, without a GET and without a change of the cache; no row
\* of the cache ever carries its url
C18_IneligibleSkipped ==
    /\ [](\A i \in Tasks :
            Ineligible(repos[i])
            => (/\ pc[i] \in {"start", "done"}
                /\ result[i] = Nil
                /\ http[i] = [md |-> 0, fl |-> 0]
                /\ \A r \in cur.repos : r.url # repos[i].url))
    /\ [][\A i \in Tasks :
            (Ineligible(repos[i]) /\ pc[i] = "start" /\ pc'[i] # "start")
            => (pc'[i] = "done" /\ result'[i] = Nil /\ cur' = cur /\ http' = http)]_vars

\* Refresh returned nil with an ftp repository and a yast2 repository skipped
C18_Witness ==
    /\ ret = Nil
    /\ \E i, j \in Tasks :
          /\ pc[i] = "done" /\ pc[j] = "done"
          /\ repos[i].url[1] = "ftp://" /\ repos[i].type = "rpm-md"
          /\ repos[j].url[1] = "http://" /\ repos[j].type = "yast2"

\* C19 (last_checked): the wallclock is taken before the GET of repomd.xml
\* and kept; the row a refresh commits carries it as lastChecked, whatever
\* the time of the write; and a task returns as fresh only within an hour
\* of a committed lastChecked
C19_LastCheckedAtStart ==
    [][\A i \in Tasks :
         /\ http'[i].md = http[i].md + 1
            => (loc[i].start # ZeroTime /\ loc[i].start <= now)
         /\ (pc'[i] # "start" /\ loc'[i].start # loc[i].start)
            => (/\ pc[i] = "stamp" /\ pc'[i] = "repomd"
                /\ http[i].md = 0
                /\ loc'[i].start = now)
         /\ (pc[i] = "body" /\ pc'[i] = "committed")
            => \A r \in cur'.repos :
                  r.url = repos[i].url
                  => (r.lastChecked = loc[i].start /\ r.lastChecked <= now)
         /\ (pc[i] = "fresh" /\ pc'[i] = "done")
            => \E r \in cur.repos :
                  r.url = repos[i].url /\ now < r.lastChecked + Hour]_vars

\* A transaction writes the row half an hour or more after the refresh
\* started, with the start as lastChecked
C19_Witness ==
    \E i \in Tasks :
       /\ pc[i] = "body" /\ loc[i].k = 1
       /\ now > loc[i].start
       /\ \E r \in cur.repos : r.url = repos[i].url /\ r.lastChecked = loc[i].start
       /\ \A r \in journal.repos : r.url = repos[i].url => r.lastChecked < loc[i].start

\* ------------------------------------------------------------------------
\* zypper.Arch: sync.OnceValues around `zypper system-architecture`
\* ------------------------------------------------------------------------

\* MaxCallers goroutines call Arch(), each up to MaxCalls times
MaxCallers == 3
MaxCalls == 2

Callers == 1..MaxCallers

\* What one run of the tool can give: (trimmed stdout, error)
ToolOutputs == {<<x86_64, "">>, <<aarch64, "">>, <<<<>>, "exit status 1">>}

OnceInit ==
    /\ once = [pc |-> [c \in Callers |-> "out"],    \* where each caller is
               got |-> [c \in Callers |-> <<>>],    \* what its calls returned
               done |-> FALSE,                      \* Once.done
               holder |-> 0,                        \* who holds Once.m
               runs |-> 0,                          \* runs of the tool
               val |-> <<<<>>, "">>,                \* r1, r2 of OnceValues
               waited |-> {}]                       \* callers served under the lock
    /\ opn = Idle /\ am = Idle /\ lp = Idle /\ cmd = Idle
    /\ proc = Idle /\ disp = Idle /\ net = Idle
    /\ st = Idle
    /\ conf = Idle
    /\ CoordIdle

\* A Once that forgets it has run
OnceNeverDone(o) == FALSE

\* o.done.Load() (and o.done under the lock, in doSlow)
OnceDone(o) == o.done

\* Arch() -> arch() -> once.Do(g), the fast path: done is set, the stored
\* values are returned; otherwise the caller goes for the lock
ArchCall(c) ==
    /\ once.pc[c] = "out"
    /\ Len(once.got[c]) < MaxCalls
    /\ once' = IF OnceDone(once)
               THEN [once EXCEPT !.got[c] = Append(@, once.val)]
               ELSE [once EXCEPT !.pc[c] = "slow"]
    /\ UNCHANGED <<coordVars, opn, am, lp, cmd, proc, disp, net, st, conf>>

\* doSlow: m.Lock(); if done is set by now, unlock and return the stored
\* values; otherwise run the function with the lock held
ArchLock(c) ==
    /\ once.pc[c] = "slow"
    /\ once.holder = 0
    /\ once' = IF OnceDone(once)
               THEN [once EXCEPT !.pc[c] = "out",
                                 !.got[c] = Append(@, once.val),
                                 !.waited = @ \cup {c}]
               ELSE [once EXCEPT !.pc[c] = "exec", !.holder = c]
    /\ UNCHANGED <<coordVars, opn, am, lp, cmd, proc, disp, net, st, conf>>

\* The function runs the tool, its values are stored, done is set, the lock
\* is released and the caller returns the values
ArchExec(c) ==
    /\ once.pc[c] = "exec"
    /\ \E out \in ToolOutputs :
          once' = [once EXCEPT !.pc[c] = "out",
                               !.got[c] = Append(@, out),
                               !.val = out,
                               !.runs = @ + 1,
                               !.done = TRUE,
                               !.holder = 0]
    /\ UNCHANGED <<coordVars, opn, am, lp, cmd, proc, disp, net, st, conf>>

OnceNext ==
    \/ \E c \in Callers : ArchCall(c)
    \/ \E c \in Callers : ArchLock(c)
    \/ \E c \in Callers : ArchExec(c)

SpecOnce == OnceInit /\ [][OnceNext]_vars

\* C20 (one-shot Arch): the tool runs at most once; every call that has
\* returned did so after that one run, with its value and its error
C20_ArchOnce ==
    once # Idle =>
       /\ once.runs <= 1
       /\ \A c \in Callers : \A k \in 1..Len(once.got[c]) :
             /\ once.runs = 1
             /\ once.got[c][k] = once.val
       /\ \A c, d \in Callers : \A k \in 1..Len(once.got[c]) : \A m \in 1..Len(once.got[d]) :
             once.got[c][k] = once.got[d][m]

\* The one run failed; a caller that waited for the lock meanwhile and every
\* later call got its error
C20_Witness ==
    /\ once # Idle
    /\ once.runs = 1
    /\ once.val[2] # ""
    /\ once.waited # {}
    /\ \A c \in Callers : Len(once.got[c]) = MaxCalls

\* ---------------------------------------------------------------------------
\* One run of the tool: run's calls in order, each of which may fail, then
\* main's exit code.

MaxResults == 2

\* The flags config.AddFlags defines
ConfigFlags == {"verbose", "releasever", "json", "xml", "enabled"}

\* The flags of a command line, in its order: none, one that AddFlags
\* defines, one that nothing defines, and -h
CommandLines == {<<>>, <<"json">>, <<"bogus">>, <<"h">>}

\* The process has not exited
NoExit == 0 - 1

\* flag.Parse on the command line flag set (flag.ExitOnError) when the flags
\* `defined` have been defined: the first flag that is not defined ends the
\* process, with status 0 when it is -h or -help and with status 2 otherwise
FlagParse(args, defined) ==
    LET bad == {k \in 1..Len(args) : args[k] \notin defined}
    IN  IF bad = {} THEN NoExit
        ELSE LET k == CHOOSE x \in bad : \A y \in bad : x <= y
             IN  IF args[k] \in {"h", "help"} THEN 0 ELSE 2

\* The calls of run that return an error, in the order run makes them
Steps == <<"executable", "config", "arch", "open", "list", "refresh", "run",
           "output">>

StepSet == {Steps[k] : k \in 1..Len(Steps)}

\* A run that takes an empty result for a success
NoResultsIgnored(n) == FALSE

\* if len(results) == 0 { return fmt.Errorf("no results found") }
NoResults(n) == n = 0

\* if err != nil { slog.Error(...); os.Exit(1) }; otherwise main returns
ExitCode(err) == IF err = "" THEN 0 ELSE 1

ExitInit ==
    /\ proc \in [pc : {"executable"},
                 fail : SUBSET StepSet,      \* the calls that fail if reached
                 n : 0..MaxResults,          \* the records the query finds
                 err : {""},                 \* what run returned
                 args : CommandLines,        \* the flags of the command line
                 exit : {NoExit}]            \* the exit code, once exited
    /\ opn = Idle /\ am = Idle /\ lp = Idle /\ cmd = Idle /\ once = Idle
    /\ disp = Idle /\ net = Idle
    /\ st = Idle
    /\ conf = Idle
    /\ CoordIdle

\* One call of run: its error is returned at once, else run goes on
Call(step, next) ==
    /\ proc # Idle
    /\ proc.pc = step
    /\ proc' = IF step \in proc.fail
               THEN [proc EXCEPT !.pc = "returned", !.err = step]
               ELSE [proc EXCEPT !.pc = next]
    /\ UNCHANGED <<coordVars, opn, am, lp, cmd, once, disp, net, st, conf>>

\* exe, err := os.Executable()
Executable == Call("executable", "new")

\* flag.Parse() at a point where the flags `defined` exist: the process ends
\* there or goes on to next
ParseAt(step, defined, next) ==
    /\ proc # Idle
    /\ proc.pc = step
    /\ proc' = IF FlagParse(proc.args, defined) # NoExit
               THEN [proc EXCEPT !.pc = "exited",
                                 !.exit = FlagParse(proc.args, defined)]
               ELSE [proc EXCEPT !.pc = next]
    /\ UNCHANGED <<coordVars, opn, am, lp, cmd, once, disp, net, st, conf>>

\* cmd = filelist.New() or filesearch.New(): the constructor calls
\* flag.Parse() before any flag is defined
NewCommand == ParseAt("new", {}, "parse")

\* config.AddFlags(); cmd.AddFlags(); flag.Parse()
ParseFlags == ParseAt("parse", ConfigFlags, "config")

\* cfg, err := config.Read(ctx)
ConfigRead == Call("config", "arch")

\* if _, err := zypper.Arch(); err != nil { return err }
ArchProbe == Call("arch", "open")

\* db, err := database.New(ctx)
OpenCache == Call("open", "list")

\* repos, err := zypper.ListRepositories(ctx)
ListRepos == Call("list", "refresh")

\* if err := repository.Refresh(ctx, db, repos); err != nil { return err }
DoRefresh == Call("refresh", "run")

\* results, err := cmd.Run(ctx, cfg, db, repos)
CmdRun == Call("run", "results")

\* the empty result is an error of its own
CheckResults ==
    /\ proc # Idle
    /\ proc.pc = "results"
    /\ proc' = IF NoResults(proc.n)
               THEN [proc EXCEPT !.pc = "returned", !.err = "no results found"]
               ELSE [proc EXCEPT !.pc = "output"]
    /\ UNCHANGED <<coordVars, opn, am, lp, cmd, once, disp, net, st, conf>>

\* the results are encoded and written; then return nil
Output == Call("output", "returned")

\* main: the exit code after run returned
MainExit ==
    /\ proc # Idle
    /\ proc.pc = "returned"
    /\ proc' = [proc EXCEPT !.pc = "exited", !.exit = ExitCode(proc.err)]
    /\ UNCHANGED <<coordVars, opn, am, lp, cmd, once, disp, net, st, conf>>

ExitNext ==
    \/ Executable
    \/ NewCommand
    \/ ParseFlags
    \/ ConfigRead
    \/ ArchProbe
    \/ OpenCache
    \/ ListRepos
    \/ DoRefresh
    \/ CmdRun
    \/ CheckResults
    \/ Output
    \/ MainExit

SpecExit == ExitInit /\ [][ExitNext]_vars

\* C21 (exit code), for a process that flag parsing did not end (no flag on
\* the command line, or os.Executable failed before the parse): it exits
\* with 0 or 1; with 0 exactly when no call of run failed and the query found
\* at least one record; a failure of the probe, of opening the cache, of the
\* refresh or of the query, and an empty result, all give 1.  A process that
\* flag parsing ends exits with 0 for -h and with 2 for a flag it rejects
C21_ExitCodeAmended ==
    (proc # Idle /\ proc.pc = "exited") =>
       IF proc.args = <<>> \/ "executable" \in proc.fail
       THEN /\ proc.exit \in {0, 1}
            /\ proc.exit = 0 <=> (proc.fail = {} /\ proc.n >= 1)
            /\ (proc.fail \cap {"arch", "open", "refresh", "run"} # {})
               => proc.exit = 1
            /\ (proc.n = 0) => proc.exit = 1
       ELSE /\ proc.err = ""
            /\ proc.exit = IF proc.args = <<"h">> THEN 0 ELSE 2

\* C21 as claimed: the process exits with 0 or 1; with 0 exactly when no
\* call of run failed and the query found at least one record; a failure of
\* the probe, of opening the cache, of the refresh or of the query, and an
\* empty result, all give 1
C21_ExitCode ==
    (proc # Idle /\ proc.pc = "exited") =>
       /\ proc.exit \in {0, 1}
       /\ proc.exit = 0 <=> (proc.fail = {} /\ proc.n >= 1)
       /\ (proc.fail \cap {"arch", "open", "refresh", "run"} # {}) => proc.exit = 1
       /\ (proc.n = 0) => proc.exit = 1

\* Every call succeeded and the query found nothing: exit code 1, for
\* "no results found"
C21_Witness ==
    /\ proc # Idle
    /\ proc.pc = "exited"
    /\ proc.args = <<>>
    /\ proc.fail = {}
    /\ proc.n = 0
    /\ proc.err = "no results found"
    /\ proc.exit = 1

\* ---------------------------------------------------------------------------
\* The Version column of the text output: one result, rendered.

MaxFieldLen == 2

FieldChars == {"0", "1"}

\* What the epoch, version and release of a stored package can be
Fields == UNION {[1..n -> FieldChars] : n \in 0..MaxFieldLen}

\* A Version column that shows every epoch that is not empty
VersionFieldZeroShown(r) ==
    LET v == IF r.epoch # <<>> THEN r.epoch \o <<":">> \o r.version
             ELSE r.version
    IN IF r.release # <<>> THEN v \o <<"-">> \o r.release ELSE v

\* The Value function of the Version field: version, with "epoch:" before it
\* unless the epoch is "" or "0", and "-release" after it unless the release
\* is ""
VersionField(r) ==
    LET v == IF r.epoch # <<>> /\ r.epoch # <<"0">>
             THEN r.epoch \o <<":">> \o r.version
             ELSE r.version
    IN IF r.release # <<>> THEN v \o <<"-">> \o r.release ELSE v

DispInit ==
    /\ disp \in [pc : {"result"}, epoch : Fields, version : Fields,
                 release : Fields, out : {<<>>}]
    /\ opn = Idle /\ am = Idle /\ lp = Idle /\ cmd = Idle /\ once = Idle
    /\ proc = Idle /\ net = Idle
    /\ st = Idle
    /\ conf = Idle
    /\ CoordIdle

\* One row of the table is written
Render ==
    /\ disp # Idle
    /\ disp.pc = "result"
    /\ disp' = [disp EXCEPT !.pc = "rendered", !.out = VersionField(disp)]
    /\ UNCHANGED <<coordVars, opn, am, lp, cmd, once, proc, net, st, conf>>

DispNext == Render

SpecDisp == DispInit /\ [][DispNext]_vars

\* C22 (version display), as stated: epoch "" or "0" gives version-release,
\* any other epoch gives epoch:version-release
C22_VersionDisplay ==
    (disp # Idle /\ disp.pc = "rendered") =>
       disp.out = IF disp.epoch \in {<<>>, <<"0">>}
                  THEN disp.version \o <<"-">> \o disp.release
                  ELSE disp.epoch \o <<":">> \o disp.version \o <<"-">> \o disp.release

\* C22 (version display), amended: as stated when the release is not empty;
\* with an empty release the text ends with the version, without a dash
C22_VersionDisplayAmended ==
    (disp # Idle /\ disp.pc = "rendered") =>
       LET shown == disp.epoch \notin {<<>>, <<"0">>}
           n == Len(disp.out)
           tailLen == IF disp.release = <<>> THEN 0 ELSE 1 + Len(disp.release)
           headLen == IF shown THEN Len(disp.epoch) + 1 ELSE 0
       IN /\ n = headLen + Len(disp.version) + tailLen
          /\ shown => /\ SubSeq(disp.out, 1, Len(disp.epoch)) = disp.epoch
                      /\ disp.out[headLen] = ":"
          /\ SubSeq(disp.out, headLen + 1, headLen + Len(disp.version)) = disp.version
          /\ disp.release # <<>> =>
                /\ disp.out[n - Len(disp.release)] = "-"
                /\ SubSeq(disp.out, n - Len(disp.release) + 1, n) = disp.release

\* Epoch 1, version 10, no release: rendered as 1:10
C22_Witness ==
    /\ disp # Idle
    /\ disp.pc = "rendered"
    /\ disp.epoch = <<"1">>
    /\ disp.version = <<"1", "0">>
    /\ disp.release = <<>>
    /\ disp.out = <<"1", ":", "1", "0">>

\* ---------------------------------------------------------------------------
\* The response bodies of one refresh task: fetchHttp and updateRepository,
\* with every body the client hands out either open or closed.

\* What the server answers (0: the transport fails, there is no response)
StatusCodes == {0, 101, 200, 299, 300, 404}

\* What the task runs into after a fetch succeeded
ParseOutcomes == {"ok", "parse repomd.xml", "no file lists", "unchanged",
                  "decompress", "parse filelists.xml", "update"}

Kinds == {"md", "fl"}

\* resp.StatusCode < 200 || resp.StatusCode >= 300
BadStatus(code) == code < 200 \/ code >= 300

FetchInit ==
    /\ net \in [pc : {"do"}, kind : {"md"},
                enabled : BOOLEAN,
                status : [Kinds -> StatusCodes],   \* the answer to each GET
                outcome : ParseOutcomes,
                open : {{}},        \* the bodies handed out and not closed
                deferred : {{}},    \* the bodies a deferred Close covers
                err : {"nil"}]
    /\ opn = Idle /\ am = Idle /\ lp = Idle /\ cmd = Idle /\ once = Idle
    /\ proc = Idle /\ disp = Idle
    /\ st = Idle
    /\ conf = Idle
    /\ CoordIdle

\* What updateRepository returns for a failed fetch
FetchFailed(n, what) ==
    [n EXCEPT !.pc = "return", !.err = IF n.enabled THEN what ELSE "nil"]

\* fetchHttp up to http.DefaultClient.Do(req): an error without a response,
\* or a response, whose body is open from here on
Do(kind) ==
    /\ net # Idle
    /\ net.pc = "do"
    /\ net.kind = kind
    /\ net' = IF net.status[kind] = 0
              THEN FetchFailed(net, "fetch")
              ELSE [net EXCEPT !.pc = "status", !.open = @ \cup {kind}]
    /\ UNCHANGED <<coordVars, opn, am, lp, cmd, once, proc, disp, st, conf>>

\* The rest of fetchHttp, and the caller's check of its error: a status
\* outside [200, 300) returns an error and no body, and the response is
\* dropped as it is; otherwise the body is returned and the caller defers its
\* Close. (The client never hands out a response without a body.)
Status(kind) ==
    /\ net # Idle
    /\ net.pc = "status"
    /\ net.kind = kind
    /\ net' = IF BadStatus(net.status[kind])
              THEN FetchFailed(net, "status")
              ELSE [net EXCEPT !.pc = "parse", !.deferred = @ \cup {kind}]
    /\ UNCHANGED <<coordVars, opn, am, lp, cmd, once, proc, disp, st, conf>>

\* repomd.xml is decoded; on success the body is closed at once, then the
\* file-list entry is looked up and its timestamp compared
ParseRepomd ==
    /\ net # Idle
    /\ net.pc = "parse"
    /\ net.kind = "md"
    /\ net' = IF net.outcome = "parse repomd.xml"
              THEN [net EXCEPT !.pc = "return", !.err = net.outcome]
              ELSE IF net.outcome = "no file lists"
              THEN [net EXCEPT !.pc = "return", !.err = net.outcome,
                               !.open = @ \ {"md"}]
              ELSE IF net.outcome = "unchanged"
              THEN [net EXCEPT !.pc = "return", !.open = @ \ {"md"}]
              ELSE [net EXCEPT !.pc = "do", !.kind = "fl", !.open = @ \ {"md"}]
    /\ UNCHANGED <<coordVars, opn, am, lp, cmd, once, proc, disp, st, conf>>

\* The file-list is decompressed and decoded, and the cache updated
ParseFileList ==
    /\ net # Idle
    /\ net.pc = "parse"
    /\ net.kind = "fl"
    /\ net' = IF net.outcome \in {"decompress", "parse filelists.xml", "update"}
              THEN [net EXCEPT !.pc = "return", !.err = net.outcome]
              ELSE [net EXCEPT !.pc = "return"]
    /\ UNCHANGED <<coordVars, opn, am, lp, cmd, once, proc, disp, st, conf>>

\* updateRepository returns: the deferred Closes run
TaskReturn ==
    /\ net # Idle
    /\ net.pc = "return"
    /\ net' = [net EXCEPT !.pc = "returned", !.open = @ \ net.deferred]
    /\ UNCHANGED <<coordVars, opn, am, lp, cmd, once, proc, disp, st, conf>>

FetchNext ==
    \/ \E kind \in Kinds : Do(kind)
    \/ \E kind \in Kinds : Status(kind)
    \/ ParseRepomd
    \/ ParseFileList
    \/ TaskReturn

SpecFetch == FetchInit /\ [][FetchNext]_vars

\* C23 (bodies released): when the refresh task has returned, no response
\* body it obtained is still open, whatever path it returned by
C23_BodiesReleased ==
    (net # Idle /\ net.pc = "returned") => net.open = {}

\* repomd.xml was answered with 404: the task has returned and the body of
\* that response was never closed
C23_BodyLeaked ==
    /\ net # Idle
    /\ net.pc = "returned"
    /\ net.status["md"] = 404
    /\ net.open = {"md"}
    /\ net.deferred = {}

\* ---------------------------------------------------------------------------
\* The cache's tables under refreshes

\* Every package row points at a repository row, every file row at a
\* package row
NoOrphans(d) ==
    /\ \A p \in d.pkgs : \E r \in d.repos : r.id = p.repository
    /\ \A f \in d.files : \E p \in d.pkgs : p.id = f.pkgid

\* C24 (no orphan rows): in the cache as committed, and as the open
\* transaction sees it, every package row references an existing repository
\* row and every file row an existing package row; so no package or file
\* outlives a parent that was deleted or replaced
C24_NoOrphans == NoOrphans(Committed) /\ NoOrphans(cur)

\* A repository row was replaced by a later refresh and packages were
\* replaced or deleted with it; the cache holds packages and files
C24_Witness ==
    /\ conn = 0
    /\ cur.seqRepo > Cardinality(cur.repos)
    /\ cur.seqPkg > Cardinality(cur.pkgs)
    /\ cur.pkgs # {}
    /\ cur.files # {}

\* C25 (one row per url): whatever refreshes have run, no two rows of the
\* repositories table hold the same url
C25_OneRowPerUrl ==
    \A r1, r2 \in cur.repos : r1.url = r2.url => r1 = r2

\* Both repositories have a row, and a url has been written more than once
C25_Witness ==
    /\ conn = 0
    /\ Cardinality(cur.repos) = 2
    /\ cur.seqRepo > 2

\* ---------------------------------------------------------------------------
\* Searching the cache a refresh has filled

\* The globs and the detected archs the searches below ask for
SearchGlobs == {<<"*">>, <<"*", "f">>, <<"/", "b">>}
x86_64_v999 == x86_64 \o <<"_", "v">>
SearchArchs == {<<>>, x86_64_v999, aarch64}

\* The records a search of `repo` is to return once the file list `data` is
\* cached: one for each kept file that matches the glob, of each package
\* whose arch is noarch or a prefix of the detected arch
ExpectedRecords(repo, data, glob, arch) ==
    UNION {{[repository |-> repo.name, package |-> data[k].name,
             arch |-> data[k].arch, epoch |-> data[k].epoch,
             version |-> data[k].ver, release |-> data[k].rel,
             path |-> data[k].files[m].path] :
               m \in {n \in 1..Len(data[k].files) :
                        /\ data[k].files[n].type # "dir"
                        /\ Head(data[k].files[n].path) = "/"
                        /\ Glob(data[k].files[n].path, glob)}} :
           k \in {n \in 1..Len(data) :
                    \/ arch = <<>>
                    \/ data[n].arch = noarch
                    \/ HasPrefix(arch, data[n].arch)}}

\* A search result without the row id that tells its records apart
Records(rs) ==
    {[repository |-> r.repository, package |-> r.package, arch |-> r.arch,
      epoch |-> r.epoch, version |-> r.version, release |-> r.release,
      path |-> r.path] : r \in rs}

\* The file list `data` is what the search returned for repo, whole and alone
IsFileList(rows, repo, data) ==
    LET want == ExpectedRecords(repo, data, <<"*">>, <<>>)
    IN  /\ Records(rows) = want
        /\ Cardinality(rows) = Cardinality(want)

\* C1 (replacement atomicity): what a query returns for a repository, at any
\* point between the start and the end of its refresh, is the complete row
\* set from before the refresh or the complete row set of the file list the
\* task fetched
C1_ReplacementAtomicity ==
    \A i \in obs.mid :
       \/ obs.rows[i] = obs.old[i]
       \/ loc[i].k > 0 /\ IsFileList(obs.rows[i], repos[i], loc[i].data)

\* A query found a part of a repository's old rows while its task had not
\* opened a transaction: the task of another url had committed a file list
\* with a pkgid the repository held
C1_Torn ==
    \E i \in obs.mid : \E j \in Tasks :
       /\ repos[j].url # repos[i].url
       /\ loc[i].k = 0
       /\ obs.rows[i] # {}
       /\ obs.rows[i] # obs.old[i]
       /\ obs.rows[i] \subseteq obs.old[i]
       /\ result[j] = Nil /\ loc[j].k > Len(loc[j].data)
       /\ \E k \in 1..Len(loc[j].data) :
             loc[j].data[k].name \in {r.package : r \in obs.old[i] \ obs.rows[i]}

\* C27 (search after refresh): a repository that has no row yet gives no
\* record, whatever the glob and the arch; and when a refresh commits, a
\* search of the repository returns one record for each kept file of the
\* new file list that matches the glob and whose package is noarch or has an
\* arch the detected arch starts with, and nothing else
C27_SearchAfterRefresh ==
    /\ [](\A i \in Tasks : \A g \in SearchGlobs : \A a \in SearchArchs :
            (\A r \in cur.repos : r.url # repos[i].url)
            => SearchFile(cur, <<repos[i]>>, g, a) = {})
    /\ [][\A i \in Tasks :
            (pc[i] = "body" /\ pc'[i] = "committed")
            => \A g \in SearchGlobs : \A a \in SearchArchs :
                 LET got == SearchFile(cur', <<repos[i]>>, g, a)
                     want == ExpectedRecords(repos[i], loc[i].data, g, a)
                 IN  /\ Records(got) = want
                     /\ Cardinality(got) = Cardinality(want)
                     /\ got \subseteq SearchFile(cur', repos, g, a)]_vars

\* After a refresh that committed, a search for */f with detected arch
\* x86_64_v999 finds the x86_64 package's /f and nothing else
C27_Witness ==
    \E i \in Tasks :
       /\ pc[i] = "done" /\ result[i] = Nil /\ conn = 0
       /\ Len(loc[i].data) = 2
       /\ \E r \in SearchFile(cur, <<repos[i]>>, <<"*", "f">>, x86_64_v999) :
             /\ r.arch = x86_64
             /\ r.path = <<"/", "f">>
             /\ SearchFile(cur, <<repos[i]>>, <<"*", "f">>, x86_64_v999) = {r}

\* ---------------------------------------------------------------------------
\* A cache under a sequence of UpdateRepository and GetTimestamps calls, as
\* the tests of the database package make them.  Here a time.Time is an
\* instant (at) with the offset of its zone (off), both in half hours, and
\* the DATE columns hold the text the driver writes for it.

MaxUpdates == 2
MaxOpens == 2

\* A time.Time: the instant and the zone's offset from UTC
Time(at, off) == [at |-> at, off |-> off]

\* time.Time{}
ZeroT == Time(ZeroTime, 0)

\* t.UTC(): the same instant, in UTC
UTC(t) == Time(t.at, 0)

\* The text a time.Time is bound as, "2006-01-02 15:04:05.999999999-07:00":
\* the wall clock of its zone, and the offset
DateText(t) == [wall |-> t.at + t.off, off |-> t.off]

\* The time.Time a DATE column is scanned into: the instant the text names,
\* in the zone of its offset
ParseDate(x) == Time(x.wall - x.off, x.off)

\* The (lastChecked, lastModified) pairs UpdateRepository is called with
StoreTimes == {<<Time(Hour, 0), Time(Unix(2), 0)>>,
               <<Time(Hour + 1, 2), Time(Unix(1), 0)>>,
               <<Time(Hour, 0 - 2), Time(Unix(2), 2)>>}

\* A rebuilt PkgFoo: another pkgid, the same name, arch and version
PkgFooRebuilt == [PkgFoo EXCEPT !.pkgid = "p5"]

\* The package lists UpdateRepository is called with
StoreLists == {FileLists[1], FileLists[3], <<PkgFoo, PkgFooRebuilt>>}

\* The repositories of the calls; RepoY is asked for and never written
StoreWritten == {RepoA, RepoB}
StoreAsked == {RepoA, RepoB, RepoY}

\* Database.GetTimestamps on the DATE columns: the zero time twice when the
\* url has no row, else the two columns scanned and taken to UTC
GetTimestampsUTC(d, repo) ==
    IF \A r \in d.repos : r.url # repo.url THEN <<ZeroT, ZeroT>>
    ELSE LET t == GetTimestamps(d, repo)
         IN  <<UTC(ParseDate(t[1])), UTC(ParseDate(t[2]))>>

StoreInit ==
    /\ st = [pc |-> "ready", db |-> initialize(NewFile), n |-> 0,
             repo |-> RepoY, lastChecked |-> ZeroT, lastModified |-> ZeroT,
             data |-> <<>>, asked |-> RepoY, got |-> <<ZeroT, ZeroT>>,
             opens |-> 1,                     \* calls of New so far
             file |-> initialize(NewFile),    \* the file as Close left it
             seen |-> {},                     \* what the last search returned
             seenAt |-> 0]                    \* and at which open (0: stale)
    /\ opn = Idle /\ am = Idle /\ lp = Idle /\ cmd = Idle /\ once = Idle
    /\ proc = Idle /\ disp = Idle /\ net = Idle
    /\ conf = Idle
    /\ CoordIdle

\* db.UpdateRepository(ctx, repo, lastChecked, lastModified, cb), with a
\* callback that adds the packages of data and their files, and commits
StoreUpdate(repo, times, data) ==
    /\ st # Idle
    /\ st.pc # "closed"
    /\ st.n < MaxUpdates
    /\ st' = [st EXCEPT !.pc = "updated",
                        !.db = Load(@, repo, DateText(times[1]),
                                    DateText(times[2]), data),
                        !.n = @ + 1,
                        !.repo = repo,
                        !.lastChecked = times[1],
                        !.lastModified = times[2],
                        !.data = data,
                        !.seenAt = 0]
    /\ UNCHANGED <<coordVars, opn, am, lp, cmd, once, proc, disp, net, conf>>

\* db.GetTimestamps(ctx, repo)
StoreGet(repo) ==
    /\ st # Idle
    /\ st.pc \notin {"closed", "got"}
    /\ st' = [st EXCEPT !.pc = "got", !.asked = repo,
                        !.got = GetTimestampsUTC(st.db, repo)]
    /\ UNCHANGED <<coordVars, opn, am, lp, cmd, once, proc, disp, net, conf>>

\* db.SearchFile(ctx, "*", "", repos)
StoreSearch ==
    /\ st # Idle
    /\ st.pc # "closed"
    /\ st.seenAt # st.opens
    /\ st' = [st EXCEPT !.seen = SearchFile(st.db, <<RepoA, RepoB>>, <<"*">>, <<>>),
                        !.seenAt = st.opens]
    /\ UNCHANGED <<coordVars, opn, am, lp, cmd, once, proc, disp, net, conf>>

\* db.Close(): what was committed is the file the next New finds
StoreClose ==
    /\ st # Idle
    /\ st.pc # "closed"
    /\ st.opens < MaxOpens
    /\ st' = [st EXCEPT !.pc = "closed", !.file = st.db]
    /\ UNCHANGED <<coordVars, opn, am, lp, cmd, once, proc, disp, net, conf>>

\* database.New on the file the cache was closed to
StoreOpen ==
    /\ st # Idle
    /\ st.pc = "closed"
    /\ st' = [st EXCEPT !.pc = "ready", !.db = initialize(st.file),
                        !.opens = @ + 1]
    /\ UNCHANGED <<coordVars, opn, am, lp, cmd, once, proc, disp, net, conf>>

StoreNext ==
    \/ \E repo \in StoreWritten : \E times \in StoreTimes : \E data \in StoreLists :
          StoreUpdate(repo, times, data)
    \/ \E repo \in StoreAsked : StoreGet(repo)
    \/ StoreSearch
    \/ StoreClose
    \/ StoreOpen

SpecStore == StoreInit /\ [][StoreNext]_vars

\* C26 (package uniqueness): after any sequence of updates no two package
\* rows hold the same pkgid, in whatever repositories, and no two hold the
\* same (repository, name, arch, epoch, version, release)
C26_PackagesUnique ==
    st # Idle =>
       \A p, q \in st.db.pkgs :
          /\ p.pkgid = q.pkgid => p = q
          /\ (/\ p.repository = q.repository /\ p.name = q.name
              /\ p.arch = q.arch /\ p.epoch = q.epoch
              /\ p.version = q.version /\ p.release = q.release) => p = q

\* A list that holds one name, arch and version under two pkgids was
\* written after another repository had cached the first pkgid: the cache
\* holds the rebuilt package alone
C26_Witness ==
    /\ st # Idle
    /\ st.n = 2
    /\ st.data = <<PkgFoo, PkgFooRebuilt>>
    /\ Cardinality(st.db.repos) = 2
    /\ {p.pkgid : p \in st.db.pkgs} = {"p5"}
    /\ st.db.seqPkg = 3

\* C28 (timestamp round trip): GetTimestamps on the repository that
\* UpdateRepository has just committed returns the instants it was given,
\* lastChecked first, both in UTC; on a url that has no row it returns the
\* zero time twice
C28_TimestampRoundTrip ==
    (st # Idle /\ st.pc = "got") =>
       /\ (st.n > 0 /\ st.asked = st.repo) =>
             /\ st.got[1].at = st.lastChecked.at
             /\ st.got[2].at = st.lastModified.at
             /\ st.got[1].off = 0 /\ st.got[2].off = 0
       /\ (\A r \in st.db.repos : r.url # st.asked.url) =>
             st.got = <<ZeroT, ZeroT>>

\* The row was written with times of two zones other than UTC and with
\* lastChecked # lastModified; GetTimestamps gave both instants back in UTC
C28_Witness ==
    /\ st # Idle
    /\ st.pc = "got"
    /\ st.n > 0
    /\ st.asked = st.repo
    /\ st.lastChecked = Time(Hour, 0 - 2)
    /\ st.lastModified = Time(Unix(2), 2)
    /\ st.got = <<Time(Hour, 0), Time(Unix(2), 0)>>

\* C29 (persistence across reopen): a cache that was closed and opened again
\* holds the repository, package and file rows the closed file held; and a
\* search returns what it returned before Close, as long as nothing was
\* written in between
C29_PersistsAcrossReopen ==
    st # Idle =>
       /\ (st.pc = "ready" /\ st.opens > 1) =>
             /\ st.db.repos = st.file.repos
             /\ st.db.pkgs = st.file.pkgs
             /\ st.db.files = st.file.files
       /\ (st.pc # "closed" /\ st.opens > 1 /\ st.seenAt = st.opens - 1) =>
             SearchFile(st.db, <<RepoA, RepoB>>, <<"*">>, <<>>) = st.seen

\* Two repositories were written, a search found their records, the cache
\* was closed and opened again, and holds the rows of the closed file
C29_Witness ==
    /\ st # Idle
    /\ st.pc = "ready"
    /\ st.opens = 2
    /\ st.seenAt = 1
    /\ Cardinality(st.seen) >= 2
    /\ st.db = st.file
    /\ Cardinality(st.db.repos) = 2
    /\ SearchFile(st.db, <<RepoA, RepoB>>, <<"*">>, <<>>) = st.seen

\* ---------------------------------------------------------------------------
\* ListPackage and the terms it does not find

\* The terms of the call none of whose candidates returns a row
NotFound ==
    {t \in 1..Len(lp.terms) :
       TermIds(lp.db, <<RepoA>>, lp.arch, Candidates(lp.terms[t]), 1) = {}}

\* C30 (a term not found): a call with a term that no candidate matches
\* still queries every term after it, and returns the files of every package
\* the other terms match
C30_NotFoundGoesOn ==
    (lp # Idle /\ lp.pc = "done") =>
       /\ \A t \in 1..Len(lp.terms) : \E k \in 1..Len(lp.log) : lp.log[k].t = t
       /\ \A t \in 1..Len(lp.terms) :
             ListFiles(lp.db, TermIds(lp.db, <<RepoA>>, lp.arch,
                                      Candidates(lp.terms[t]), 1))
                \subseteq lp.results
       /\ \A r \in lp.results : \E t \in (1..Len(lp.terms)) \ NotFound :
             r.pid \in TermIds(lp.db, <<RepoA>>, lp.arch, Candidates(lp.terms[t]), 1)

\* The first term of two was not found, the second was: the call returned
\* the files of the second term's package
C30_Witness ==
    /\ lp # Idle
    /\ lp.pc = "done"
    /\ Len(lp.terms) = 2
    /\ NotFound = {1}
    /\ lp.results # {}
    /\ \E k \in 1..Len(lp.log) : lp.log[k].t = 2 /\ lp.log[k].rows # {}

\* ---------------------------------------------------------------------------
\* config.Read: the [filesearch] section of the configuration file, then the
\* flags the user passed.

\* What a key of the section can hold ("unset": the key is absent)
BoolTexts == {"unset", "true", "false", "junk"}
FormatTexts == {"unset", "json", "xml", "human", "JSON", "yaml"}
ReleaseVers == {"", "15.6", "16.0"}

\* Key.MustBool(def): the value parsed, def when absent or not a boolean
MustBool(text, def) ==
    IF text = "true" THEN TRUE ELSE IF text = "false" THEN FALSE ELSE def

\* The switch on result.Format: json and xml are valid, anything else is human
ValidFormat(text) == IF text \in {"json", "xml"} THEN text ELSE "human"

\* One flag as the flag package holds it: whether the command line set it,
\* and its value (the default given to AddFlags when it did not)
Flag(set, val) == [set |-> set, val |-> val]

FlagValues(vals, def) == {Flag(TRUE, v) : v \in vals} \cup {Flag(FALSE, def)}

\* flag.Visit calls the function for the flags that were set only
Visited(f) == f.set

\* Read, from the section on: the keys with their defaults, the format made
\* valid, then the visited flags in the order flag.Visit takes them (by name:
\* enabled, json, releasever, verbose, xml)
Read(file, flags) ==
    LET fmt0 == ValidFormat(file.format)
        fmt1 == IF Visited(flags.json)
                THEN (IF flags.json.val THEN "json" ELSE "human") ELSE fmt0
        fmt2 == IF Visited(flags.xml)
                THEN (IF flags.xml.val THEN "xml" ELSE "human") ELSE fmt1
    IN  [Verbose |-> IF Visited(flags.verbose) THEN flags.verbose.val
                     ELSE MustBool(file.verbose, FALSE),
         ReleaseVer |-> IF Visited(flags.releasever) THEN flags.releasever.val
                        ELSE file.releaseVer,
         Format |-> fmt2,
         Enabled |-> IF Visited(flags.enabled) THEN flags.enabled.val
                     ELSE MustBool(file.enabled, TRUE)]

\* The flags the command line passed, as flag.Parse meets them
PassedFlags(flags) ==
    LET IsSet(n) == flags[n].set
    IN  SelectSeq(<<"enabled", "json", "releasever", "verbose", "xml">>, IsSet)

ConfInit ==
    /\ conf \in [pc : {"new"},
                 exit : {NoExit},
                 file : [verbose : BoolTexts, releaseVer : {"", "15.6"},
                         format : FormatTexts, enabled : BoolTexts],
                 flags : [verbose : FlagValues(BOOLEAN, FALSE),
                          releasever : FlagValues({"", "16.0"}, ""),
                          json : FlagValues(BOOLEAN, FALSE),
                          xml : FlagValues(BOOLEAN, FALSE),
                          enabled : FlagValues(BOOLEAN, TRUE)],
                 result : {[Verbose |-> FALSE, ReleaseVer |-> "",
                            Format |-> "human", Enabled |-> TRUE]}]
    /\ opn = Idle /\ am = Idle /\ lp = Idle /\ cmd = Idle /\ once = Idle
    /\ proc = Idle /\ disp = Idle /\ net = Idle /\ st = Idle
    /\ CoordIdle

\* flag.Parse() at a point where the flags `defined` exist
ConfParseAt(step, defined, next) ==
    /\ conf # Idle
    /\ conf.pc = step
    /\ LET e == FlagParse(PassedFlags(conf.flags), defined)
       IN  conf' = IF e # NoExit
                   THEN [conf EXCEPT !.pc = "exited", !.exit = e]
                   ELSE [conf EXCEPT !.pc = next]
    /\ UNCHANGED <<coordVars, opn, am, lp, cmd, once, proc, disp, net, st>>

\* filelist.New() / filesearch.New(): flag.Parse() with no flag defined yet
ConfNew == ConfParseAt("new", {}, "parse")

\* config.AddFlags(); cmd.AddFlags(); flag.Parse()
ConfParse == ConfParseAt("parse", ConfigFlags, "start")

\* cfg, err := config.Read(ctx)
ReadConfig ==
    /\ conf # Idle
    /\ conf.pc = "start"
    /\ conf' = [conf EXCEPT !.pc = "read", !.result = Read(conf.file, conf.flags)]
    /\ UNCHANGED <<coordVars, opn, am, lp, cmd, once, proc, disp, net, st>>

ConfNext ==
    \/ ConfNew
    \/ ConfParse
    \/ ReadConfig

SpecConf == ConfInit /\ [][ConfNext]_vars

\* C31 (flags over the file): a run ends its start-up with a configuration
\* in which verbose, releaseVer and enabled are the flag's value when the
\* flag was passed and the file's value (its default when the key is absent
\* or unreadable) when it was not; the format is the file's (human unless
\* json or xml) when neither -json nor -xml was passed, and the flag's
\* otherwise
C31_FlagsOverride ==
    (conf # Idle /\ conf.pc \in {"read", "exited"}) =>
       LET r == conf.result
           f == conf.file
           g == conf.flags
       IN  /\ conf.pc = "read"
           /\ r.Verbose = IF g.verbose.set THEN g.verbose.val
                          ELSE (f.verbose = "true")
           /\ r.ReleaseVer = IF g.releasever.set THEN g.releasever.val
                             ELSE f.releaseVer
           /\ r.Enabled = IF g.enabled.set THEN g.enabled.val
                          ELSE (f.enabled # "false")
           /\ (~g.json.set /\ ~g.xml.set) =>
                 r.Format = IF f.format = "json" THEN "json"
                            ELSE IF f.format = "xml" THEN "xml" ELSE "human"
           /\ (g.json.set /\ ~g.xml.set) =>
                 r.Format = IF g.json.val THEN "json" ELSE "human"
           /\ g.xml.set => r.Format = IF g.xml.val THEN "xml" ELSE "human"

\* The file says verbose, xml and all repositories and the user passed
\* -enabled=true only: the constructor's flag.Parse rejects the flag and the
\* process has ended with status 2 before config.Read
C31_FlagRejected ==
    /\ conf # Idle
    /\ conf.pc = "exited" /\ conf.exit = 2
    /\ conf.file.verbose = "true" /\ conf.file.format = "xml"
    /\ conf.file.enabled = "false" /\ conf.file.releaseVer = "15.6"
    /\ conf.flags.enabled = Flag(TRUE, TRUE)
    /\ ~conf.flags.verbose.set /\ ~conf.flags.json.set
    /\ ~conf.flags.xml.set /\ ~conf.flags.releasever.set

\* ---------------------------------------------------------------------------
\* The freshness window and the order of a task's steps

\* C32 (freshness boundary): a task that read its timestamps with the
\* context alive reaches the freshness test, and there it returns at once,
\* without a request, exactly when the cache holds a row for its url whose
\* lastChecked plus one hour is strictly after now; with no row, or with now
\* at or past that instant, it goes on to fetch repomd.xml
C32_FreshnessBoundary ==
    [][\A i \in Tasks :
         /\ (/\ pc[i] = "start" /\ pc'[i] # "start"
             /\ IsHttp(repos[i]) /\ repos[i].type = "rpm-md"
             /\ ~group.cancelled)
            => (pc'[i] = "fresh" /\ http' = http)
         /\ (pc[i] = "fresh" /\ pc'[i] # "fresh")
            => LET fresh == \E r \in cur.repos :
                               r.url = repos[i].url /\ r.lastChecked + Hour > now
               IN  /\ fresh => (pc'[i] = "done" /\ result'[i] = Nil /\ http' = http)
                   /\ ~fresh => (pc'[i] = "stamp" /\ http' = http)
         /\ (pc[i] = "stamp" /\ pc'[i] # "stamp") => pc'[i] = "repomd"]_vars

\* A task made the freshness test exactly one hour after its repository was
\* last checked, and went on
C32_Witness ==
    \E i \in Tasks :
       /\ pc[i] = "stamp"
       /\ \E r \in cur.repos :
             r.url = repos[i].url /\ r.lastChecked + Hour = now

\* C33 (one pass, in order): within one Refresh a task issues at most one
\* GET of repomd.xml and at most one of the file list; the file list is
\* requested only by a task whose repomd.xml was fetched and decoded; the
\* cache is written only by a task whose file list was fetched and decoded;
\* and a request that failed is not made again
C33_OnePassInOrder ==
    /\ [](\A i \in Tasks :
            /\ http[i].md <= 1 /\ http[i].fl <= 1
            /\ http[i].fl = 1 => http[i].md = 1
            /\ pc[i] = "repomdBody" => http[i] = [md |-> 1, fl |-> 0]
            /\ pc[i] \in {"filelistsBody", "begin", "body", "committed", "unwind"}
               => (http[i].fl = 1 /\ loc[i].out = "ok")
            /\ conn = i => (http[i].fl = 1 /\ pc[i] = "body"))
    /\ [][\A i \in Tasks :
            /\ http'[i].md > http[i].md =>
                  (pc[i] = "repomd" /\ http[i].md = 0 /\ http[i].fl = 0)
            /\ http'[i].fl > http[i].fl =>
                  (/\ pc[i] = "filelists" /\ http[i].md = 1 /\ http[i].fl = 0
                   /\ loc[i].out = "ok")
            /\ (loc'[i].out # loc[i].out
                /\ loc'[i].out \in {"fetchErr", "parseErr", "decompressErr", "noFileLists"})
               => (pc'[i] = "done" /\ pc[i] # "done")
            /\ (pc[i] = "done" /\ run' = run) => (pc'[i] = "done" /\ http'[i] = http[i])
            /\ (cur' # cur /\ conn' = i) => http[i].fl = 1]_vars

\* A task has fetched repomd.xml, then the file list, and is writing the cache
C33_Witness ==
    \E i \in Tasks :
       /\ pc[i] = "body" /\ conn = i
       /\ http[i] = [md |-> 1, fl |-> 1]
       /\ loc[i].k > 1

\* ---------------------------------------------------------------------------
\* What a refresh does to the rows of the other repositories

\* The rows the cache holds under a url: the repository row, the packages
\* and the files
RowsUnder(d, url) ==
    [repos |-> {r \in d.repos : r.url = url},
     pkgs |-> CachedPackages(d, url),
     files |-> CachedFiles(d, url)]

\* C34 (frame of a refresh): a step of the transaction of one task leaves
\* the repository row, the packages and the files under every other url as
\* they were, whatever the task's file list holds
C34_Frame ==
    [][\A i \in Tasks : \A j \in Tasks :
         (/\ repos[j].url # repos[i].url
          /\ conn = i \/ conn' = i)
         => RowsUnder(cur', repos[j].url) = RowsUnder(cur, repos[j].url)]_vars

\* The refresh of one repository has committed a file list with a pkgid that
\* was cached under the other: the other repository has lost that package
\* and its files, while the file list it last committed still holds it
C34_Stolen ==
    \E i \in Tasks : \E j \in Tasks :
       /\ repos[j].url # repos[i].url
       /\ conn = 0
       /\ pc[i] = "done" /\ result[i] = Nil /\ http[i].fl = 1
       /\ pc[j] = "done" /\ result[j] = Nil /\ http[j].fl = 1
       /\ \E k \in 1..Len(loc[j].data) :
             /\ loc[j].data[k].pkgid \notin
                   {p.pkgid : p \in CachedPackages(cur, repos[j].url)}
             /\ loc[j].data[k].pkgid \in
                   {p.pkgid : p \in CachedPackages(cur, repos[i].url)}

\* ---------------------------------------------------------------------------
\* Refreshes that end without a write

\* lastChecked of the row the committed cache holds under a url (none: {})
CheckedAt(d, url) == {r.lastChecked : r \in {x \in d.repos : x.url = url}}

\* C35 (the gate writes nothing): a task that ends at the timestamp gate
\* leaves the cache as it was, so its repository's lastChecked stays more
\* than the window behind; lastChecked of a url changes only when a refresh
\* of that url commits; and a task that finds a row whose window has expired
\* goes on to fetch repomd.xml
C35_GateWritesNothing ==
    [][\A i \in Tasks :
         /\ (pc[i] = "repomdBody" /\ pc'[i] = "done" /\ loc'[i].out = "ok")
            => (/\ result'[i] = Nil
                /\ cur' = cur /\ journal' = journal
                /\ \A t \in CheckedAt(Committed', repos[i].url) : t + Hour <= now)
         /\ CheckedAt(Committed', repos[i].url) # CheckedAt(Committed, repos[i].url)
            => (pc[i] = "body" /\ pc'[i] = "committed")
         /\ (/\ pc[i] = "fresh" /\ pc'[i] # "fresh"
             /\ CheckedAt(cur, repos[i].url) # {}
             /\ \A t \in CheckedAt(cur, repos[i].url) : t + Hour <= now)
            => pc'[i] = "stamp"
         /\ (pc[i] = "stamp" /\ pc'[i] # "stamp") => pc'[i] = "repomd"]_vars

\* In a second run a task ended at the gate: the row it found, checked in
\* the first run, is as it was and its window is still expired
C35_Witness ==
    /\ run = 2
    /\ \E i \in Tasks :
          /\ pc[i] = "done" /\ result[i] = Nil /\ loc[i].out = "ok"
          /\ http[i] = [md |-> 1, fl |-> 0]
          /\ \E r \in Committed.repos :
                /\ r.url = repos[i].url
                /\ r.lastModified = loc[i].ts
                /\ r.lastChecked < loc[i].start
                /\ r.lastChecked + Hour <= now

\* The ways the file-list stage fails
FileListFailures == {"fetchErr", "decompressErr", "parseErr"}

\* C36 (a failed file list writes nothing): the step at which the fetch, the
\* decompression or the parse of a repository's file list fails leaves the
\* cache, the open transaction and the connection as they were, so the rows
\* under the repository's url and what a search of it returns are the same;
\* and while the task stays failed the repository row is the one it found
C36_FailedFileListWritesNothing ==
    /\ [](\A i \in Tasks :
            (pc[i] = "done" /\ loc[i].out \in FileListFailures)
            => \A r \in Committed.repos :
                  r.url = repos[i].url => r.lastModified = loc[i].lastModified)
    /\ [][\A i \in Tasks :
            (pc[i] \in {"filelists", "filelistsBody"} /\ pc'[i] = "done"
             /\ loc'[i].out \in FileListFailures)
            => (/\ cur' = cur /\ journal' = journal /\ conn' = conn
                /\ RowsUnder(cur', repos[i].url) = RowsUnder(cur, repos[i].url)
                /\ RowsOf(cur', repos[i]) = RowsOf(cur, repos[i])
                /\ result'[i] # Nil <=>
                      (loc'[i].out # "fetchErr" \/ repos[i].enabled))]_vars

\* In a second run the file list of a repository that has changed failed to
\* parse: the rows the first run stored are still there and a search finds
\* them
C36_Witness ==
    /\ run = 2
    /\ \E i \in Tasks :
          /\ pc[i] = "done" /\ loc[i].out = "parseErr"
          /\ http[i] = [md |-> 1, fl |-> 1]
          /\ loc[i].ts # loc[i].lastModified
          /\ RowsOf(Committed, repos[i]) # {}
          /\ \E r \in Committed.repos :
                r.url = repos[i].url /\ r.lastModified = loc[i].lastModified

\* ---------------------------------------------------------------------------
\* The driver after a failed refresh

\* C37 (a failed refresh stops the driver): once the refresh of one
\* repository has returned an error the command's query is never issued, and
\* the only step the driver takes is to fail with exit code 1 and no result,
\* whatever rows the cache holds
C37_FailedRefreshNoQuery ==
    /\ []((\E i \in Tasks : result[i] # Nil) => cmd.pc # "queried")
    /\ []((ret # Running /\ \E i \in Tasks : result[i] # Nil)
          => (ret # Nil /\ ~ENABLED MainRun))
    /\ [][((\E i \in Tasks : result[i] # Nil) /\ cmd' # cmd)
          => (cmd'.pc = "failed" /\ cmd'.exit = 1 /\ cmd'.results = {})]_vars

\* The driver has exited with code 1 after the refresh of one repository
\* failed, while the cache holds rows of the listed repositories that a
\* query would have returned, some of them committed by this refresh
C37_Witness ==
    /\ cmd.pc = "failed" /\ cmd.exit = 1 /\ cmd.results = {}
    /\ \E i \in Tasks : result[i] # Nil
    /\ \E j \in Tasks : result[j] = Nil /\ http[j].fl = 1 /\ loc[j].k > 1
    /\ conn = 0
    /\ AllRows(cur) # {}

\* ---------------------------------------------------------------------------
\* Refresh on a repository list that names one url twice

\* Repository lists with the same repository twice
DupLists == {<<RepoA, RepoA>>, <<RepoB, RepoB>>, <<RepoY, RepoY>>}

DupInit ==
    /\ now = Hour
    /\ run = 1
    /\ repos \in DupLists
    /\ cur = initialize(NewFile)
    /\ journal = initialize(NewFile)
    /\ conn = 0
    /\ pc = [i \in Tasks |-> "start"]
    /\ loc = [i \in Tasks |-> NoLoc]
    /\ result = [i \in Tasks |-> Nil]
    /\ http = [i \in Tasks |-> [md |-> 0, fl |-> 0]]
    /\ group = [err |-> Nil, cancelled |-> FALSE]
    /\ order = <<>>
    /\ ret = Running
    /\ obs = NoObs
    /\ PureIdle

SpecDup == DupInit /\ [][CoordNext]_vars

\* Whether the rows the cache d holds for repo are the file list its server
\* publishes under timestamp sec, whole and alone, under one repository row
\* that carries that timestamp
OneFileList(d, repo, sec) ==
    LET rows == {r \in d.repos : r.url = repo.url}
        got == RowsOf(d, repo)
        want == ExpectedRecords(repo, Published(repo, sec), <<"*">>, <<>>)
    IN  /\ Cardinality(rows) = 1
        /\ \A r \in rows : r.lastModified = Unix(sec)
        /\ Records(got) = want
        /\ Cardinality(got) = Cardinality(want)
        /\ {p.repository : p \in d.pkgs} \subseteq {r.id : r \in rows}

\* C38 (the same url twice): at every commit point, and so when Refresh
\* returns, the cache holds no repository row for the url or exactly one,
\* and with it the packages and files of one published file list, whole and
\* alone; a task that committed leaves exactly one row
C38_DuplicateUrl ==
    /\ \/ \A r \in Committed.repos : r.url # repos[1].url
       \/ \E sec \in 1..MaxStamp : OneFileList(Committed, repos[1], sec)
    /\ (ret # Running /\ \E i \in Tasks : result[i] = Nil /\ loc[i].k > 0)
       => \E sec \in 1..MaxStamp : OneFileList(cur, repos[1], sec)

\* Refresh has returned after both tasks for the one url passed the
\* freshness test, fetched different file lists and committed: the cache
\* holds the file list of the task that committed last
C38_Witness ==
    /\ ret = Nil /\ run = 1
    /\ repos[1] = repos[2]
    /\ \A i \in Tasks : /\ http[i] = [md |-> 1, fl |-> 1]
                        /\ result[i] = Nil /\ loc[i].k > 1
    /\ loc[1].ts # loc[2].ts
    /\ OneFileList(cur, repos[1], loc[order[2]].ts - UnixEpoch)
    /\ ~OneFileList(cur, repos[1], loc[order[1]].ts - UnixEpoch)

\* ---------------------------------------------------------------------------
\* Termination of Refresh

\* The positions of the repository lists
LiveTasks == UNION {DOMAIN l : l \in RepoLists}

\* A step of the goroutine that wg.Go started for entry i of the list
TaskStep(i) ==
    /\ i \in Tasks
    /\ \/ Skip(i)
       \/ ReadTimestamps(i)
       \/ CheckFresh(i)
       \/ StampStart(i)
       \/ FetchRepomd(i)
       \/ DecodeRepomd(i)
       \/ FetchFileList(i)
       \/ ReadFileList(i)
       \/ TxBegin(i)
       \/ TxAdd(i)
       \/ TxCommit(i)
       \/ TxRollback(i)
       \/ TxReturn(i)

\* One invocation under a scheduler that lets every goroutine that can run
\* run in the end, with every HTTP fetch returning or failing, and the pool
\* handing the free connection to the goroutines that wait for it
SpecLive ==
    /\ MainInit
    /\ [][MainNext]_vars
    /\ \A i \in LiveTasks : WF_vars(TaskStep(i))
    /\ WF_vars(RefreshReturn)

\* C39 (Refresh terminates): every task finishes and Refresh returns; the
\* task that holds the connection is inside its transaction, where its next
\* step needs neither the pool nor another task, and a task that waits for
\* the connection does not hold it; while Refresh has not returned some task
\* can step or Wait can return
C39_RefreshTerminates ==
    /\ <>(\A i \in Tasks : pc[i] = "done")
    /\ <>(ret # Running)
    /\ [](\A i \in Tasks :
            /\ conn = i => (pc[i] = "body"
                            /\ ENABLED (TxAdd(i) \/ TxCommit(i) \/ TxRollback(i)))
            /\ pc[i] \in {"start", "fresh", "stamp", "begin", "committed", "unwind",
                         "done"}
               => conn # i)
    /\ [](ret = Running
          => ENABLED ((\E i \in Tasks : TaskStep(i)) \/ RefreshReturn))

\* One task is inside its transaction on the single connection while the
\* other, not cancelled, waits for the connection to read its timestamps or
\* to begin its own transaction
C39_Witness ==
    \E i \in Tasks : \E j \in Tasks :
       /\ conn = i /\ pc[i] = "body"
       /\ pc[j] \in {"start", "begin"}
       /\ IsHttp(repos[j]) /\ IsRpmMd(repos[j])
       /\ ~group.cancelled
       /\ ~ENABLED TaskStep(j)

====
